---------------------------- MODULE Spec2Model ----------------------------
(***************************************************************************)
(* HF_Locking: wavemeter polling worker, shared state store, ZMQ command   *)
(* server with lock-wait, and the controller's start-up / shut-down.       *)
(*                                                                         *)
(* Units.  Frequencies and setpoints are integers in units of 1e-6 THz,    *)
(* so LOCK_TOLERANCE (0.000005 THz) is 5 and MIN_VALID_SETPOINT_THZ        *)
(* (1.0 THz) is 1000000.  Time inside the lock-wait is counted in sleeps   *)
(* of the wait loop (time.sleep(0.1)).                                     *)
(*                                                                         *)
(* Granularity.  A handler that runs on the worker is a sequence of steps: *)
(* one per loop iteration of a poll (the device calls of one channel and   *)
(* the merge that follows them), one per device call of a write handler.   *)
(* While a thread's activation is not idle the thread is inside, or about  *)
(* to re-enter, the device wrapper (wlm_utils.wlm_link).                   *)
(***************************************************************************)
EXTENDS Integers, Sequences, FiniteSets, TLC

(***************************************************************************)
(* Bounds of the model                                                     *)
(***************************************************************************)
NumPorts == 2            \* channels modelled (PORTS is 1..8 in the program)
MaxQueue == 1            \* pending queued slot invocations per thread
LockTimeoutTicks == 4    \* LOCK_TIMEOUT_S counted in 0.1 s sleeps (600), scaled
MaxCalls == 4            \* calls of _normalize_frequency in a run of the normalizer

(***************************************************************************)
(* Program constants                                                       *)
(***************************************************************************)
LOCK_TOLERANCE == 5
MIN_VALID_SETPOINT_THZ == 1000000

None == -999             \* Python None (never a device reading)

\* wlmConst codes used by workers.py
InfNothingChanged == -7
ErrNoValue == 0
ErrNoSignal == -1
ErrBadSignal == -2
ErrLowSignal == -3
ErrBigSignal == -4
ErrWlmMissing == -5
ErrNotAvailable == -6
ErrNoPulse == -8
ErrChannelNotAvailable == -10
ErrDiv0 == -13
ErrOutOfRange == -14
ErrUnitNotAvailable == -15

HARD_INVALID ==
    { ErrNoValue, ErrNoSignal, ErrBadSignal, ErrLowSignal, ErrBigSignal,
      ErrWlmMissing, ErrNotAvailable, ErrNoPulse, ErrChannelNotAvailable,
      ErrDiv0, ErrOutOfRange, ErrUnitNotAvailable }

PORTS == 1..NumPorts

\* QtCore.Qt.QueuedConnection on every widget/ZMQ -> worker connection
ConnectionTypeDirect == "Direct"
ConnectionType == "Queued"

(***************************************************************************)
(* Input sets                                                              *)
(***************************************************************************)
\* genuine readings of a channel with a laser: 1000004 is within
\* LOCK_TOLERANCE of the target 1000000, 1000005 is not
GenuineReadings == {1000004, 1000005}
LitReadings == GenuineReadings \cup {InfNothingChanged, ErrNoSignal}
DarkReadings == {ErrNoSignal}
\* targets a client or the GUI may send: one below the floor, one at the floor
Targets == {999999, 1000000}
VoltVals == {0, 7}
ExpReading == <<1, 2>>
AmpReading == <<3, 4>>
Ctx == {"worker", "rep", "main"}
\* threads that call SharedExperimentState: the three above and ZMQPubWorker
Threads == Ctx \cup {"pub"}


VARIABLES
    \* SharedExperimentState
    meas, status, globals,
    \* WavemeterWorker fields and its thread
    w_running, busy_fast, last_good, w_lock, w_active, timers, wthread,
    \* pending queued slot invocations per thread, running handler per thread
    q, act,
    \* the instrument behind wlm_link
    dev,
    \* ZMQRepWorker and the reply it has just sent
    rpc, rreq, rloc, r_running, r_intr, reply,
    \* ExperimentController (main thread)
    mpc,
    \* history: log line and update signal of the last step, whether the
    \* waited channel was merged since the lock-wait last looked, the
    \* lock-wait's observations
    lastLog, emitted, fresh, obs,
    \* the store's QMutex and each thread's call of a store method in
    \* progress (used where the methods are followed step by step)
    mutex, sop,
    \* history of _normalize_frequency calls per channel
    nrm,
    \* ZMQPubWorker.run: position, loop variable, all_meas and the messages
    \* sent in the current pass of the loop body
    pub

storeV == <<meas, status, globals>>
wkrV == <<w_running, busy_fast, last_good, w_lock, w_active, timers, wthread>>
repV == <<rpc, rreq, rloc, r_running, r_intr, reply>>
vars == <<meas, status, globals, w_running, busy_fast, last_good, w_lock,
          w_active, timers, wthread, q, act, dev, rpc, rreq, rloc, r_running,
          r_intr, reply, mpc, lastLog, emitted, fresh, obs, mutex, sop, nrm,
          pub>>
\* state that only the step-by-step views of the store and of the
\* normalizer and the publisher change
fineV == <<mutex, sop, nrm, pub>>

\* the command server is inside _wait_for_lock for this port
Waiting(port) ==
    /\ rpc \in {"wait_head", "wait_read", "wait_sleep"}
    /\ rreq.connection = port

\* log_message.emit(...) of the step, "" when the step logs nothing
\* and the status_updated / globals_updated signal of the step, "" when
\* the step emits none
Signals(msg, sig) == lastLog' = msg /\ emitted' = sig /\ UNCHANGED fineV
Log(msg) == Signals(msg, "")
Quiet == Signals("", "")

(***************************************************************************)
(* SharedExperimentState                                                   *)
(***************************************************************************)
MeasDefault ==
    [freq_raw |-> None, freq_display |-> None, freq_plot |-> None,
     valid |-> FALSE, volt |-> 0, exp |-> <<0, 0>>, amp |-> <<0, 0>>]

StatusDefault ==
    [use |-> FALSE, show |-> FALSE, setpoint |-> 0, bound_min |-> 0,
     bound_max |-> 0, lock_enabled |-> FALSE]

GlobalsDefault ==
    [temperature |-> 0, pressure |-> 0, autocal |-> FALSE,
     deviation_mode |-> FALSE, wlm_active |-> TRUE]

\* the assignment `d = delta`, which update(delta) is not
DictReplace(d, delta) == delta

\* dict.update(delta)
DictUpdate(d, delta) ==
    [k \in (DOMAIN d) \cup (DOMAIN delta) |->
        IF k \in DOMAIN delta THEN delta[k] ELSE d[k]]

\* a merge that reaches every channel, which update_measurement does not
update_measurement_all(m, port, delta) ==
    [p \in DOMAIN m |-> DictUpdate(m[p], delta)]

update_measurement(m, port, delta) == [m EXCEPT ![port] = DictUpdate(@, delta)]
update_status(s, port, delta) == [s EXCEPT ![port] = DictUpdate(@, delta)]
update_globals(g, delta) == DictUpdate(g, delta)

\* what a thread does between two calls of the store
Outside(t) ==
    CASE t = "worker" -> "device_call"
      [] t = "pub" -> "send"
      [] t = "rep" -> "sleep"
      [] OTHER -> "gui"

\* what a reader has copied so far: measurements, status, globals
NoCopy == [m |-> <<>>, s |-> <<>>, g |-> <<>>]

\* a thread that is not inside a store method; `todo` are the keys of
\* delta still to be written, `at` the store when the mutex was taken
NoCall(t) ==
    [op |-> "-", pc |-> Outside(t), port |-> 0, delta |-> <<>>, todo |-> {},
     res |-> NoCopy, at |-> <<>>]

\* no _normalize_frequency call yet
NoCalls == <<>>

(***************************************************************************)
(* WavemeterWorker._normalize_frequency                                    *)
(***************************************************************************)
\* variants of the four return statements that the code does not have
HeldAsGap(last, f_raw) ==
    [raw |-> f_raw, disp |-> last, plot |-> None, valid |-> FALSE,
     last |-> last]
NoHistoryAsReading(last, f_raw) ==
    [raw |-> f_raw, disp |-> f_raw, plot |-> f_raw, valid |-> TRUE,
     last |-> last]
HardInvalidPlotsLast(last, f_raw) ==
    [raw |-> f_raw, disp |-> last, plot |-> last, valid |-> FALSE,
     last |-> last]
HardInvalidForgets(last, f_raw) ==
    [raw |-> f_raw, disp |-> last, plot |-> None, valid |-> FALSE,
     last |-> None]
ValidNotRemembered(last, f_raw) ==
    [raw |-> f_raw, disp |-> f_raw, plot |-> f_raw, valid |-> TRUE,
     last |-> last]

NoHistoryRemembers(last, f_raw) ==
    [raw |-> f_raw, disp |-> None, plot |-> None, valid |-> FALSE,
     last |-> f_raw]
ValidWithoutDisplay(last, f_raw) ==
    [raw |-> f_raw, disp |-> last, plot |-> f_raw, valid |-> TRUE,
     last |-> f_raw]
HeldWithoutPlot(last, f_raw) ==
    [raw |-> f_raw, disp |-> last, plot |-> None, valid |-> TRUE,
     last |-> last]

\* `return f_raw, None, None, False`
NoHistory(last, f_raw) ==
    [raw |-> f_raw, disp |-> None, plot |-> None, valid |-> FALSE,
     last |-> last]
\* `return f_raw, last, last, True`
Held(last, f_raw) ==
    [raw |-> f_raw, disp |-> last, plot |-> last, valid |-> TRUE,
     last |-> last]
\* `return f_raw, last, None, False`
HardInvalid(last, f_raw) ==
    [raw |-> f_raw, disp |-> last, plot |-> None, valid |-> FALSE,
     last |-> last]
\* `f = float(f_raw); self._last_good_freq[port] = f; return f, f, f, True`
\* (float() of the DLL's double cannot raise)
Valid(last, f_raw) ==
    [raw |-> f_raw, disp |-> f_raw, plot |-> f_raw, valid |-> TRUE,
     last |-> f_raw]

\* the four outputs and the value of _last_good_freq[port] after the call
NormalizeFrequency(last, f_raw) ==
    IF f_raw = InfNothingChanged
    THEN IF last = None
         THEN NoHistory(last, f_raw)
         ELSE Held(last, f_raw)
    ELSE IF f_raw \in HARD_INVALID
         THEN HardInvalid(last, f_raw)
         ELSE Valid(last, f_raw)

(***************************************************************************)
(* Handler activations                                                     *)
(***************************************************************************)
Idle == [h |-> "idle", pc |-> "-", port |-> 0, val |-> 0, b1 |-> FALSE,
         b2 |-> FALSE]

Activation(h, pc, port, val, b1, b2) ==
    [h |-> h, pc |-> pc, port |-> port, val |-> val, b1 |-> b1, b2 |-> b2]

Event(h, port, val, b1, b2) ==
    [h |-> h, port |-> port, val |-> val, b1 |-> b1, b2 |-> b2]

At(c, h, pc) == act[c].h = h /\ act[c].pc = pc
Goto(c, pc) == act' = [act EXCEPT ![c].pc = pc]
GotoPort(c, pc, port) == act' = [act EXCEPT ![c].pc = pc, ![c].port = port]
Return(c) == act' = [act EXCEPT ![c] = Idle]

\* a thread with a running handler is inside the device wrapper
InDeviceCall(c) == act[c].h # "idle"

\* a slot that runs on the thread of the signal's emitter
SlotThreadOfSender(sender) == sender
\* thread that runs a slot connected to a signal emitted by `sender`
SlotThread(sender) == IF ConnectionType = "Queued" THEN "worker" ELSE sender
\* an event posted to a thread whose event loop has ended is never delivered
Undeliverable(t) == t = "worker" /\ wthread = "finished"
CanEmit(sender) ==
    Undeliverable(SlotThread(sender)) \/ Len(q[SlotThread(sender)]) < MaxQueue
Emit(sender, ev) ==
    IF Undeliverable(SlotThread(sender))
    THEN UNCHANGED q
    ELSE q' = [q EXCEPT ![SlotThread(sender)] = Append(@, ev)]

\* a call of the device wrapper other than is_active may raise
Raises == dev.flaky
Readings(port) == IF dev.lit[port] THEN LitReadings ELSE DarkReadings

(***************************************************************************)
(* WavemeterWorker._poll_fast                                              *)
(***************************************************************************)
\* a stop that is never seen
StoppedIgnored == FALSE
\* `if not self._running: return`
Stopped == ~w_running

\* a guard that is never seen set
BusyIgnored == FALSE
\* `if self._busy_fast: return`
Busy == busy_fast

\* a presence flag that is never seen cleared
OfflineIgnored == FALSE
\* `if not self._wlm_active: return`
Offline == ~w_active

\* entry of _poll_fast up to the first loop iteration
PollFastEnter(c) ==
    IF Stopped \/ Offline \/ Busy
    THEN UNCHANGED <<act, busy_fast>>
    ELSE /\ busy_fast' = TRUE
         /\ act' = [act EXCEPT ![c] =
                        Activation("fast", "port", 1, 0, FALSE, FALSE)]

\* one iteration of `for port in PORTS`: get_frequency_num, normalize,
\* get_deviation_signal, get_exposure_num, get_amplitude, update_measurement
FastPort(c) ==
    /\ At(c, "fast", "port")
    /\ \E f_raw \in Readings(act[c].port) :
          LET port == act[c].port
              n == NormalizeFrequency(last_good[port], f_raw)
              pkt == [freq_raw |-> n.raw, freq_display |-> n.disp,
                      freq_plot |-> n.plot, valid |-> n.valid,
                      volt |-> dev.volt[port], exp |-> ExpReading,
                      amp |-> AmpReading]
          IN /\ last_good' = [last_good EXCEPT ![port] = n.last]
             /\ meas' = update_measurement(meas, port, pkt)
             /\ fresh' = (fresh \/ Waiting(port))
             /\ IF port < NumPorts
                THEN /\ GotoPort(c, "port", port + 1)
                     /\ UNCHANGED busy_fast
                ELSE /\ Return(c)
                     /\ busy_fast' = FALSE
    /\ Quiet
    /\ UNCHANGED <<status, globals, w_running, w_lock, w_active, timers,
                   wthread, q, dev, repV, mpc, obs>>

\* a tick without the finally clause
BusyLeftSet == TRUE
\* `finally: self._busy_fast = False`
BusyAfterError == FALSE

\* an iteration in which a device call raises: get_frequency_num itself, or
\* a later call, after _normalize_frequency has run; except + finally
FastPortRaise(c) ==
    /\ Raises
    /\ At(c, "fast", "port")
    /\ \/ UNCHANGED last_good
       \/ \E f_raw \in Readings(act[c].port) :
             last_good' = [last_good EXCEPT ![act[c].port] =
                  NormalizeFrequency(last_good[act[c].port], f_raw).last]
    /\ Log("poll_fast error")
    /\ busy_fast' = BusyAfterError
    /\ Return(c)
    /\ UNCHANGED <<storeV, w_running, w_lock, w_active, timers, wthread, q,
                   dev, repV, mpc, fresh, obs>>

(***************************************************************************)
(* WavemeterWorker._poll_slow, _emit_full_status_for_port                  *)
(***************************************************************************)
PollSlowEnter(c) ==
    IF Stopped
    THEN UNCHANGED act
    ELSE act' = [act EXCEPT ![c] =
                     Activation("slow", "is_active", 0, 0, FALSE, FALSE)]

\* a presence check that is not repeated once it has failed
IsActiveLatched == dev.active /\ w_active
\* `self.wlm.is_active()`; wlm_link.is_active catches its own exceptions
IsActive == dev.active

\* an offline branch that reports the server as present
OnlineDelta == [wlm_active |-> TRUE]
\* self.state.update_globals({"wlm_active": False})
OfflineDelta == [wlm_active |-> FALSE]

SlowIsActive(c) ==
    /\ At(c, "slow", "is_active")
    /\ w_active' = IsActive
    /\ IF ~IsActive
       THEN /\ Log(IF w_active THEN "WLM server not detected" ELSE "")
            /\ globals' = update_globals(globals, OfflineDelta)
            /\ Return(c)
       ELSE /\ Log(IF ~w_active THEN "WLM server detected" ELSE "")
            /\ globals' = IF ~w_active
                          THEN update_globals(globals, [wlm_active |-> TRUE])
                          ELSE globals
            /\ Goto(c, "globals")
    /\ UNCHANGED <<meas, status, w_running, busy_fast, last_good, w_lock,
                   timers, wthread, q, dev, repV, mpc, fresh, obs>>

\* the try block of the four globals reads and update_globals
SlowGlobals(c) ==
    /\ At(c, "slow", "globals")
    /\ globals' = update_globals(globals,
                     [temperature |-> dev.temperature,
                      pressure |-> dev.pressure,
                      autocal |-> (dev.autocal = 1),
                      deviation_mode |-> (dev.deviation_mode = 1),
                      wlm_active |-> TRUE])
    /\ GotoPort(c, "status", 1)
    /\ Quiet
    /\ UNCHANGED <<meas, status, wkrV, q, dev, repV, mpc, fresh, obs>>

SlowGlobalsRaise(c) ==
    /\ Raises
    /\ At(c, "slow", "globals")
    /\ Log("poll_slow globals error")
    /\ GotoPort(c, "status", 1)
    /\ UNCHANGED <<storeV, wkrV, q, dev, repV, mpc, fresh, obs>>

\* leave the status loop body of the current port
SlowNextPort(c) ==
    IF act[c].port < NumPorts
    THEN GotoPort(c, "status", act[c].port + 1)
    ELSE Return(c)

\* the armed state the worker remembers from the last lock command
LockArmed(port) == w_lock[port]
\* lock_hw = self.wlm.get_channel_assignment(port)
LockAssigned(port) == dev.assign[port]

\* _emit_full_status_for_port(port)
SlowStatus(c) ==
    /\ At(c, "slow", "status")
    /\ LET port == act[c].port
           lock_hw == LockAssigned(port)
           s_full == [use |-> (dev.use[port] # 0),
                      show |-> (dev.show[port] # 0),
                      setpoint |-> dev.sp[port],
                      bound_min |-> dev.bmin[port],
                      bound_max |-> dev.bmax[port],
                      lock_enabled |-> lock_hw]
       IN /\ w_lock' = [w_lock EXCEPT ![port] = lock_hw]
          /\ status' = update_status(status, port, s_full)
    /\ SlowNextPort(c)
    /\ Quiet
    /\ UNCHANGED <<meas, globals, w_running, busy_fast, last_good, w_active,
                   timers, wthread, q, dev, repV, mpc, fresh, obs>>

\* a tick that ends at the first channel whose status read fails
AbortTick(c) == Return(c)
\* the try is inside `for port in PORTS`: the loop goes on
AfterStatusError(c) == SlowNextPort(c)

SlowStatusRaise(c) ==
    /\ Raises
    /\ At(c, "slow", "status")
    /\ Log("poll_slow status error")
    /\ AfterStatusError(c)
    /\ UNCHANGED <<storeV, wkrV, q, dev, repV, mpc, fresh, obs>>

(***************************************************************************)
(* Write handlers                                                          *)
(***************************************************************************)
\* `value < MIN_VALID_SETPOINT_THZ`
SetpointRejectedAtFloor(value) == value <= MIN_VALID_SETPOINT_THZ
SetpointRejected(value) == value < MIN_VALID_SETPOINT_THZ

\* entry of the slot for event ev, up to its first device call
HandlerEnter(c, ev) ==
    CASE ev.h = "setpoint" ->
           IF SetpointRejected(ev.val)
           THEN /\ Log("Setpoint write REJECTED")
                /\ UNCHANGED <<act, w_running, timers, wthread>>
           ELSE /\ act' = [act EXCEPT ![c] =
                    Activation("setpoint", "set_pid_course_num", ev.port,
                               ev.val, FALSE, FALSE)]
                /\ Quiet
                /\ UNCHANGED <<w_running, timers, wthread>>
      [] ev.h = "voltage" ->
           /\ act' = [act EXCEPT ![c] =
                    Activation("voltage", "set_deviation_signal", ev.port,
                               ev.val, FALSE, FALSE)]
           /\ Quiet
           /\ UNCHANGED <<w_running, timers, wthread>>
      [] ev.h = "switcher" ->
           /\ act' = [act EXCEPT ![c] =
                    Activation("switcher", "set_switcher_signal", ev.port, 0,
                               ev.b1, ev.b2)]
           /\ Quiet
           /\ UNCHANGED <<w_running, timers, wthread>>
      [] ev.h = "lock" ->
           /\ act' = [act EXCEPT ![c] =
                    Activation("lock", "set_channel_assignment", ev.port, 0,
                               ev.b1, FALSE)]
           /\ Quiet
           /\ UNCHANGED <<w_running, timers, wthread>>
      [] ev.h = "autocal" ->
           /\ act' = [act EXCEPT ![c] =
                    Activation("autocal", "set_autocal_mode", 0, 0, ev.b1,
                               FALSE)]
           /\ Quiet
           /\ UNCHANGED <<w_running, timers, wthread>>
      [] ev.h = "deviation" ->
           /\ act' = [act EXCEPT ![c] =
                    Activation("deviation", "set_deviation_mode", 0, 0, ev.b1,
                               FALSE)]
           /\ Quiet
           /\ UNCHANGED <<w_running, timers, wthread>>
      [] ev.h = "start_polling" ->
           /\ w_running' = TRUE
           /\ timers' = TRUE
           /\ Log("WLM worker started.")
           /\ UNCHANGED <<act, wthread>>
      [] ev.h = "stop" ->
           \* finished is connected to thread_wlm.quit
           /\ w_running' = FALSE
           /\ timers' = FALSE
           /\ Log("WLM worker stopped.")
           /\ wthread' = IF c = "worker" THEN "finished" ELSE wthread
           /\ UNCHANGED act

\* a handler that stays at the call that has just failed
Reissue(c) == UNCHANGED act
\* the exception ends the slot: the except branch only logs
GiveUp(c) == Return(c)

\* a write call that raises is outside the handler's try block
WriteRaise(c) ==
    /\ Raises
    /\ act[c].pc \in {"set_pid_course_num", "set_deviation_signal",
                      "set_switcher_signal", "set_channel_assignment",
                      "set_autocal_mode", "set_deviation_mode"}
    /\ Log("unhandled exception in slot")
    /\ GiveUp(c)
    /\ UNCHANGED <<storeV, wkrV, q, dev, repV, mpc, fresh, obs>>

\* a readback that raises is logged by the handler's except branch
ReadbackRaise(c) ==
    /\ Raises
    /\ \/ At(c, "setpoint", "get_pid_course_num")
       \/ At(c, "voltage", "get_deviation_signal")
       \/ At(c, "switcher", "get_switcher_signal")
       \/ At(c, "autocal", "get_autocal_mode")
       \/ At(c, "deviation", "get_deviation_mode")
    /\ Log("readback failed")
    /\ GiveUp(c)
    /\ UNCHANGED <<storeV, wkrV, q, dev, repV, mpc, fresh, obs>>

\* the instrument takes a written value or keeps its own
DeviceAccepts == {TRUE, FALSE}

SetpointWrite(c) ==
    /\ At(c, "setpoint", "set_pid_course_num")
    /\ \E acc \in DeviceAccepts :
          dev' = IF acc THEN [dev EXCEPT !.sp[act[c].port] = act[c].val] ELSE dev
    /\ Goto(c, "get_pid_course_num")
    /\ Quiet
    /\ UNCHANGED <<storeV, wkrV, q, repV, mpc, fresh, obs>>

\* the value the handler was asked to write
SetpointRequested(c) == act[c].val
\* sp = self.wlm.get_pid_course_num(port)
SetpointRead(c) == dev.sp[act[c].port]

SetpointReadback(c) ==
    /\ At(c, "setpoint", "get_pid_course_num")
    /\ status' = update_status(status, act[c].port,
                               [setpoint |-> SetpointRead(c)])
    /\ Signals("Setpoint write", "status_updated")
    /\ Return(c)
    /\ UNCHANGED <<meas, globals, wkrV, q, dev, repV, mpc, fresh, obs>>

VoltageWrite(c) ==
    /\ At(c, "voltage", "set_deviation_signal")
    /\ \E acc \in DeviceAccepts :
          dev' = IF acc THEN [dev EXCEPT !.volt[act[c].port] = act[c].val] ELSE dev
    /\ Goto(c, "get_deviation_signal")
    /\ Quiet
    /\ UNCHANGED <<storeV, wkrV, q, repV, mpc, fresh, obs>>

\* a readback that merges a whole measurement packet
VoltagePacket(v) ==
    [freq_raw |-> 0, freq_display |-> None, freq_plot |-> None,
     valid |-> FALSE, volt |-> v]
\* {"volt": v}
VoltageDelta(v) == [volt |-> v]

VoltageReadback(c) ==
    /\ At(c, "voltage", "get_deviation_signal")
    /\ meas' = update_measurement(meas, act[c].port,
                                  VoltageDelta(dev.volt[act[c].port]))
    /\ Log("Voltage write")
    /\ Return(c)
    /\ UNCHANGED <<status, globals, wkrV, q, dev, repV, mpc, fresh, obs>>

BoolInt(b) == IF b THEN 1 ELSE 0

SwitcherWrite(c) ==
    /\ At(c, "switcher", "set_switcher_signal")
    /\ \E acc \in DeviceAccepts :
          dev' = IF acc
                 THEN [dev EXCEPT !.use[act[c].port] = BoolInt(act[c].b1),
                                  !.show[act[c].port] = BoolInt(act[c].b2)]
                 ELSE dev
    /\ Log("Switcher write")
    /\ Goto(c, "get_switcher_signal")
    /\ UNCHANGED <<storeV, wkrV, q, repV, mpc, fresh, obs>>

SwitcherReadback(c) ==
    /\ At(c, "switcher", "get_switcher_signal")
    /\ status' = update_status(status, act[c].port,
                               [use |-> (dev.use[act[c].port] # 0),
                                show |-> (dev.show[act[c].port] # 0)])
    /\ Return(c)
    /\ Signals("", "status_updated")
    /\ UNCHANGED <<meas, globals, wkrV, q, dev, repV, mpc, fresh, obs>>

\* handle_lock_toggle: set_channel_assignment, then the delta is built from
\* the argument; there is no get_channel_assignment call
LockToggle(c) ==
    /\ At(c, "lock", "set_channel_assignment")
    /\ \E acc \in DeviceAccepts :
          dev' = IF acc THEN [dev EXCEPT !.assign[act[c].port] = act[c].b1]
                 ELSE dev
    /\ w_lock' = [w_lock EXCEPT ![act[c].port] = act[c].b1]
    /\ Signals("Lock enable", "status_updated")
    /\ status' = update_status(status, act[c].port,
                               [lock_enabled |-> act[c].b1])
    /\ Return(c)
    /\ UNCHANGED <<meas, globals, w_running, busy_fast, last_good, w_active,
                   timers, wthread, q, repV, mpc, fresh, obs>>

AutocalWrite(c) ==
    /\ At(c, "autocal", "set_autocal_mode")
    /\ \E acc \in DeviceAccepts :
          dev' = IF acc THEN [dev EXCEPT !.autocal = BoolInt(act[c].b1)] ELSE dev
    /\ Log("Autocal set")
    /\ Goto(c, "get_autocal_mode")
    /\ UNCHANGED <<storeV, wkrV, q, repV, mpc, fresh, obs>>

AutocalReadback(c) ==
    /\ At(c, "autocal", "get_autocal_mode")
    /\ globals' = update_globals(globals, [autocal |-> (dev.autocal = 1)])
    /\ Return(c)
    /\ Signals("", "globals_updated")
    /\ UNCHANGED <<meas, status, wkrV, q, dev, repV, mpc, fresh, obs>>

DeviationWrite(c) ==
    /\ At(c, "deviation", "set_deviation_mode")
    /\ \E acc \in DeviceAccepts :
          dev' = IF acc THEN [dev EXCEPT !.deviation_mode = BoolInt(act[c].b1)]
                 ELSE dev
    /\ Log("Deviation mode set")
    /\ Goto(c, "get_deviation_mode")
    /\ UNCHANGED <<storeV, wkrV, q, repV, mpc, fresh, obs>>

DeviationReadback(c) ==
    /\ At(c, "deviation", "get_deviation_mode")
    /\ globals' = update_globals(globals,
                                 [deviation_mode |-> (dev.deviation_mode = 1)])
    /\ Return(c)
    /\ Signals("", "globals_updated")
    /\ UNCHANGED <<meas, status, wkrV, q, dev, repV, mpc, fresh, obs>>

(***************************************************************************)
(* Event loop of a thread: timers of the worker, queued slot invocations   *)
(***************************************************************************)
\* a thread's event loop delivers the next event when no handler is running
Free(c) == act[c].h = "idle"

TickFast ==
    /\ wthread = "running"
    /\ timers
    /\ Free("worker")
    /\ PollFastEnter("worker")
    /\ Quiet
    /\ UNCHANGED <<storeV, w_running, last_good, w_lock, w_active, timers,
                   wthread, q, dev, repV, mpc, fresh, obs>>

\* a timeout that was already posted when stop() stopped the timers and is
\* delivered after stop() has returned
TickLate ==
    /\ wthread = "finished"
    /\ Free("worker")
    /\ PollFastEnter("worker") \/ (PollSlowEnter("worker") /\ UNCHANGED busy_fast)
    /\ Quiet
    /\ UNCHANGED <<storeV, w_running, last_good, w_lock, w_active, timers,
                   wthread, q, dev, repV, mpc, fresh, obs>>

TickSlow ==
    /\ wthread = "running"
    /\ timers
    /\ Free("worker")
    /\ PollSlowEnter("worker")
    /\ Quiet
    /\ UNCHANGED <<storeV, wkrV, q, dev, repV, mpc, fresh, obs>>

Dispatch(c) ==
    /\ Free(c)
    /\ q[c] # <<>>
    /\ c = "worker" => wthread = "running"
    /\ HandlerEnter(c, Head(q[c]))
    /\ q' = [q EXCEPT ![c] = Tail(@)]
    /\ UNCHANGED <<storeV, busy_fast, last_good, w_lock, w_active, dev, repV,
                   mpc, fresh, obs>>

(***************************************************************************)
(* ZMQ requests and replies                                                *)
(***************************************************************************)
NoMsg == [action |-> "-", connection |-> 0, value |-> 0, wait |-> "absent"]
NoReply == [status |-> "-", message |-> "", value |-> 0, to |-> NoMsg]

Request(action, connection, value, wait) ==
    [action |-> action, connection |-> connection, value |-> value,
     wait |-> wait]

\* "MALFORMED" is a text json.loads rejects, "BOGUS" an unknown action
Requests ==
    {Request("HELLO", 0, 0, "absent"), Request("BOGUS", 0, 0, "absent"),
     Request("MALFORMED", 0, 0, "absent")}
    \cup {Request("CHECK_VALUE", p, 0, "absent") : p \in PORTS}
    \cup {Request("PROGRAM_VALUE", p, v, w) :
            p \in PORTS, v \in Targets, w \in {"absent", "true", "false"}}

\* requests that are answered without a lock-wait and without a write
ProtoRequests ==
    {Request("HELLO", 0, 0, "absent"), Request("BOGUS", 0, 0, "absent"),
     Request("MALFORMED", 0, 0, "absent"),
     Request("CHECK_VALUE", None, 0, "absent"),
     Request("PROGRAM_VALUE", None, 1000000, "absent"),
     Request("PROGRAM_VALUE", 1, None, "absent")}
    \cup {Request("CHECK_VALUE", p, 0, "absent") : p \in PORTS}

(***************************************************************************)
(* ZMQRepWorker                                                            *)
(***************************************************************************)
RLoc0 == [lock_enabled |-> FALSE, consecutive |-> 0, elapsed |-> 0,
          status |-> "-", message |-> "", value |-> 0]
Obs0 == [run |-> 0, pat |-> 0, stale |-> FALSE, sleeps |-> 0]

\* the thread runs its own code only when it is not inside a slot
RepFree == Free("rep") /\ q["rep"] = <<>>
RepStopped == r_intr \/ ~r_running

\* a response that is built and never sent
RespondDropped(st, msg, val) ==
    /\ rloc' = [rloc EXCEPT !.status = st, !.message = msg, !.value = val]
    /\ rpc' = "loop"
\* `resp = ...` (a returned or an except-built response), next the send
Respond(st, msg, val) ==
    /\ rloc' = [rloc EXCEPT !.status = st, !.message = msg, !.value = val]
    /\ rpc' = "send"

\* while self._running and not self.isInterruptionRequested()
RepLoop ==
    /\ rpc = "loop" /\ RepFree
    /\ rpc' = IF RepStopped THEN "exited" ELSE "polling"
    /\ reply' = NoReply
    /\ Quiet
    /\ UNCHANGED <<storeV, wkrV, q, act, dev, rreq, rloc, r_running, r_intr,
                   mpc, fresh, obs>>

\* poller.poll(250) returns without a message
RepPollTimeout ==
    /\ rpc = "polling" /\ RepFree
    /\ rpc' = "loop"
    /\ Quiet
    /\ UNCHANGED <<storeV, wkrV, q, act, dev, rreq, rloc, r_running, r_intr,
                   reply, mpc, fresh, obs>>

\* wait = d.get("wait_for_lock", self.wait_for_lock); main_wlm.py builds
\* the server with wait_for_lock=True
WaitFlagRequestOnly(m) == m.wait = "true"
WaitFlag(m) == IF m.wait = "absent" THEN TRUE ELSE m.wait = "true"

\* d["connection"] or d["value"] raises KeyError: a field the action needs
\* is absent (None stands for the absent field)
Incomplete(m) ==
    \/ m.action \in {"CHECK_VALUE", "PROGRAM_VALUE"} /\ m.connection = None
    \/ m.action = "PROGRAM_VALUE" /\ m.value = None

\* the default of st.get("setpoint", 0.0)
SetpointDefault(p) == 0
\* st = self.state.get_status(p); st.get("setpoint", 0.0)
SetpointHeld(p) == status[p].setpoint

\* a request arrives: rep.recv_string() and _handle_msg up to its first
\* read of the store
RepRecv(m) ==
    /\ rpc = "polling" /\ RepFree
    /\ rreq' = m
    /\ IF Incomplete(m)
       THEN /\ Respond("ERROR", "KeyError", 0)
            /\ UNCHANGED q
       ELSE
       CASE m.action = "HELLO" ->
              /\ Respond("SUCCESS", "", 0)
              /\ UNCHANGED q
         [] m.action = "CHECK_VALUE" ->
              /\ Respond("SUCCESS", "", SetpointHeld(m.connection))
              /\ UNCHANGED q
         [] m.action = "PROGRAM_VALUE" ->
              /\ CanEmit("rep")
              /\ Emit("rep", Event("setpoint", m.connection, m.value,
                                   FALSE, FALSE))
              /\ rpc' = "pv_status"
              /\ rloc' = RLoc0
         [] m.action = "MALFORMED" ->
              /\ Respond("ERROR", "parse error", 0)
              /\ UNCHANGED q
         [] OTHER ->
              /\ Respond("ERROR", "Unknown action", 0)
              /\ UNCHANGED q
    /\ Quiet
    /\ UNCHANGED <<storeV, wkrV, act, dev, r_running, r_intr, reply, mpc,
                   fresh, obs>>

\* st = self.state.get_status(p)
RepPvStatus ==
    /\ rpc = "pv_status" /\ RepFree
    /\ rloc' = [rloc EXCEPT !.lock_enabled = status[rreq.connection].lock_enabled]
    /\ rpc' = "pv_globals"
    /\ Quiet
    /\ UNCHANGED <<storeV, wkrV, q, act, dev, rreq, r_running, r_intr, reply,
                   mpc, fresh, obs>>

\* gl = self.state.get_globals(); `if wait and lock_enabled and dev_mode`
RepPvGlobals ==
    /\ rpc = "pv_globals" /\ RepFree
    /\ IF WaitFlag(rreq) /\ rloc.lock_enabled /\ globals.deviation_mode
       THEN /\ rpc' = "wait_head"
            /\ rloc' = [rloc EXCEPT !.consecutive = 0, !.elapsed = 0]
            /\ fresh' = TRUE
       ELSE /\ Respond("SUCCESS", "", 0)
            /\ UNCHANGED fresh
    /\ Quiet
    /\ UNCHANGED <<storeV, wkrV, q, act, dev, rreq, r_running, r_intr, reply,
                   mpc, obs>>

(***************************************************************************)
(* ZMQRepWorker._wait_for_lock                                             *)
(***************************************************************************)
\* while time.perf_counter() - t0 < LOCK_TIMEOUT_S
TimedOutEarly(elapsed) == elapsed + 1 >= LockTimeoutTicks
TimedOut(elapsed) == elapsed >= LockTimeoutTicks

\* if self.isInterruptionRequested() or not self._running: return False
WaitCancelledNever == FALSE
WaitCancelled == RepStopped

WaitHead ==
    /\ rpc = "wait_head" /\ RepFree
    /\ IF TimedOut(rloc.elapsed) \/ WaitCancelled
       THEN Respond("ERROR", "Timeout waiting for lock", 0)
       ELSE rpc' = "wait_read" /\ UNCHANGED rloc
    /\ Quiet
    /\ UNCHANGED <<storeV, wkrV, q, act, dev, rreq, r_running, r_intr, reply,
                   mpc, fresh, obs>>

\* abs(float(f) - target) < LOCK_TOLERANCE
Abs(x) == IF x < 0 THEN -x ELSE x
InTolerance(f, target) == Abs(f - target) < LOCK_TOLERANCE

\* one pass of the loop body on the copy m returned by get_measurement:
\* "skip" (not valid, -7 or no display value), "in" or "out" of tolerance
Observe(m, target) ==
    IF ~m.valid \/ m.freq_raw = InfNothingChanged THEN "skip"
    ELSE IF m.freq_display = None THEN "skip"
    ELSE IF InTolerance(m.freq_display, target) THEN "in"
    ELSE "out"

\* `if consecutive >= 2`
LockAchievedAtOne(consecutive) == consecutive >= 1
LockAchieved(consecutive) == consecutive >= 2

\* history of the wait: what the observation was in the terms of the
\* lock-wait's contract, independent of the loop's own counter
Sampled(m) == m.valid /\ m.freq_raw # InfNothingChanged /\ m.freq_display # None
GoodSample(m, target) ==
    Sampled(m) /\ m.freq_display - target < LOCK_TOLERANCE
               /\ target - m.freq_display < LOCK_TOLERANCE
Min(a, b) == IF a < b THEN a ELSE b
Pattern == <<TRUE, FALSE, TRUE, TRUE>>
Record(o, m, target, counted, isFresh) ==
    [run |-> IF GoodSample(m, target) THEN Min(o.run + 1, 2) ELSE 0,
     pat |-> IF o.pat >= 0 /\ o.pat < Len(Pattern) /\ Sampled(m)
                /\ GoodSample(m, target) = Pattern[o.pat + 1]
             THEN o.pat + 1 ELSE -1,
     stale |-> o.stale \/ (counted /\ ~isFresh),
     sleeps |-> o.sleeps]

WaitRead ==
    /\ rpc = "wait_read" /\ RepFree
    /\ LET port == rreq.connection
           o == Observe(meas[port], rreq.value)
           n == IF o = "in" THEN rloc.consecutive + 1 ELSE 0
       IN /\ obs' = Record(obs, meas[port], rreq.value, o = "in", fresh)
          /\ fresh' = FALSE
          /\ IF o = "in" /\ LockAchieved(n)
             THEN /\ rloc' = [rloc EXCEPT !.consecutive = n,
                                          !.status = "SUCCESS"]
                  /\ rpc' = "send"
             ELSE /\ rloc' = [rloc EXCEPT !.consecutive = n]
                  /\ rpc' = "wait_sleep"
    /\ Quiet
    /\ UNCHANGED <<storeV, wkrV, q, act, dev, rreq, r_running, r_intr, reply,
                   mpc>>

\* time.sleep(0.1): at least one tick
SleepTicks == {1, 2}

WaitSleep ==
    /\ rpc = "wait_sleep" /\ RepFree
    /\ \E d \in SleepTicks :
          rloc' = [rloc EXCEPT !.elapsed = Min(@ + d, LockTimeoutTicks)]
    /\ obs' = [obs EXCEPT !.sleeps = IF RepStopped THEN Min(@ + 1, 2) ELSE @]
    /\ rpc' = "wait_head"
    /\ Quiet
    /\ UNCHANGED <<storeV, wkrV, q, act, dev, rreq, r_running, r_intr, reply,
                   mpc, fresh>>

\* rep.send_string(resp)
RepSend ==
    /\ rpc = "send" /\ RepFree
    /\ reply' = [status |-> rloc.status, message |-> rloc.message,
                 value |-> rloc.value, to |-> rreq]
    /\ rreq' = NoMsg
    /\ rloc' = RLoc0
    /\ obs' = Obs0
    /\ rpc' = "loop"
    /\ Quiet
    /\ fresh' = FALSE
    /\ UNCHANGED <<storeV, wkrV, q, act, dev, r_running, r_intr, mpc>>

(***************************************************************************)
(* ExperimentController (main thread): __init__, GUI requests, closeEvent  *)
(***************************************************************************)
MainFree == Free("main") /\ q["main"] = <<>>

\* config.* calls wlm_link from the main thread
MainInDeviceCall == mpc \in {"restore_is_active", "restore_read",
                             "restore_write", "save_config"}

\* _try_restore_config: `if not self.wlm.is_active(): return`
RestoreBegin ==
    /\ mpc = "init"
    /\ mpc' = "restore_is_active"
    /\ Quiet
    /\ UNCHANGED <<storeV, wkrV, q, act, dev, repV, fresh, obs>>

RestoreIsActive ==
    /\ mpc = "restore_is_active"
    /\ mpc' = IF dev.active THEN "restore_read" ELSE "start"
    /\ Quiet
    /\ UNCHANGED <<storeV, wkrV, q, act, dev, repV, fresh, obs>>

\* no saved file, or config.read_live_state and no differences, or the
\* operator declines the dialog or approves nothing
RestoreSkip ==
    /\ mpc = "restore_read"
    /\ mpc' = "start"
    /\ Quiet
    /\ UNCHANGED <<storeV, wkrV, q, act, dev, repV, fresh, obs>>

\* config.read_live_state, differences found and approved
RestoreAccept ==
    /\ mpc = "restore_read"
    /\ mpc' = "restore_write"
    /\ Quiet
    /\ UNCHANGED <<storeV, wkrV, q, act, dev, repV, fresh, obs>>

\* a setpoint of the saved file that differs from the instrument's
SavedSetpoints == {1000002}

\* config.restore_settings: wlm.set_pid_course_num(port, float(value))
RestoreWrite ==
    /\ mpc = "restore_write"
    /\ \E p \in PORTS, v \in SavedSetpoints :
          dev' = [dev EXCEPT !.sp[p] = v]
    /\ mpc' = "start"
    /\ Quiet
    /\ UNCHANGED <<storeV, wkrV, q, act, repV, fresh, obs>>

\* self.thread_wlm.start(); self.zmq_pub.start(); self.zmq_rep.start()
\* thread_wlm.started is connected to worker_wlm.start_polling
MainStart ==
    /\ mpc = "start"
    /\ wthread' = "running"
    /\ q' = [q EXCEPT !["worker"] =
                 Append(@, Event("start_polling", 0, 0, FALSE, FALSE))]
    /\ rpc' = "loop"
    /\ mpc' = "running"
    /\ Quiet
    /\ UNCHANGED <<storeV, w_running, busy_fast, last_good, w_lock, w_active,
                   timers, act, dev, rreq, rloc, r_running, r_intr, reply,
                   fresh, obs>>

\* the channel whose row of widgets the operator uses
GuiPorts == {1}

\* a widget signal connected to a worker slot
GuiRequest(ev) ==
    /\ mpc = "running" /\ MainFree
    /\ CanEmit("main")
    /\ Emit("main", ev)
    /\ Quiet
    /\ UNCHANGED <<storeV, wkrV, act, dev, repV, mpc, fresh, obs>>

GuiSetpoint == \E p \in GuiPorts, v \in Targets :
                  GuiRequest(Event("setpoint", p, v, FALSE, FALSE))
GuiVoltage == \E p \in GuiPorts, v \in VoltVals :
                  GuiRequest(Event("voltage", p, v, FALSE, FALSE))
GuiSwitcher == \E p \in GuiPorts, u \in BOOLEAN, sh \in BOOLEAN :
                  GuiRequest(Event("switcher", p, 0, u, sh))
GuiLock == \E p \in GuiPorts, e \in BOOLEAN :
                  GuiRequest(Event("lock", p, 0, e, FALSE))
GuiAutocal == \E e \in BOOLEAN : GuiRequest(Event("autocal", 0, 0, e, FALSE))
GuiDeviation == \E e \in BOOLEAN :
                  GuiRequest(Event("deviation", 0, 0, e, FALSE))

\* closeEvent: self.zmq_rep.stop()
CloseStopRep ==
    /\ mpc = "running" /\ MainFree
    /\ r_running' = FALSE
    /\ r_intr' = TRUE
    /\ mpc' = "close_rep_wait"
    /\ Quiet
    /\ UNCHANGED <<storeV, wkrV, q, act, dev, rpc, rreq, rloc, reply, fresh,
                   obs>>

\* QThread.wait(ms) returns when the thread has finished or the time is up
BoundedWaitReturns(finished) == TRUE

\* self.zmq_rep.wait(500), then
\* QMetaObject.invokeMethod(self.worker_wlm, "stop", Qt.QueuedConnection)
CloseInvokeStop ==
    /\ mpc = "close_rep_wait"
    /\ BoundedWaitReturns(rpc = "exited")
    /\ q' = IF Undeliverable("worker") THEN q
            ELSE [q EXCEPT !["worker"] =
                      Append(@, Event("stop", 0, 0, FALSE, FALSE))]
    /\ mpc' = "close_worker_wait"
    /\ Quiet
    /\ UNCHANGED <<storeV, wkrV, act, dev, repV, fresh, obs>>

\* self.thread_wlm.wait(1000), then config.save_config(self.wlm, PORTS)
CloseSaveBegin ==
    /\ mpc = "close_worker_wait"
    /\ BoundedWaitReturns(wthread = "finished")
    /\ mpc' = "save_config"
    /\ Quiet
    /\ UNCHANGED <<storeV, wkrV, q, act, dev, repV, fresh, obs>>

CloseSaveEnd ==
    /\ mpc = "save_config"
    /\ mpc' = "closed"
    /\ Quiet
    /\ UNCHANGED <<storeV, wkrV, q, act, dev, repV, fresh, obs>>

(***************************************************************************)
(* The instrument and its surroundings                                     *)
(***************************************************************************)
DevBase ==
    [active |-> TRUE, flaky |-> FALSE, temperature |-> 21, pressure |-> 1013,
     autocal |-> 0, deviation_mode |-> 1,
     use |-> [p \in PORTS |-> 1], show |-> [p \in PORTS |-> 1],
     sp |-> [p \in PORTS |-> 1000000],
     bmin |-> [p \in PORTS |-> 100], bmax |-> [p \in PORTS |-> 4000],
     assign |-> [p \in PORTS |-> p = 1],
     volt |-> [p \in PORTS |-> 0],
     lit |-> [p \in PORTS |-> p = 1]]

\* the wlmServer application is closed or started by the operator
ServerToggle ==
    /\ dev' = [dev EXCEPT !.active = ~@]
    /\ Quiet
    /\ UNCHANGED <<storeV, wkrV, q, act, repV, mpc, fresh, obs>>

(***************************************************************************)
(* ZMQPubWorker.run                                                        *)
(***************************************************************************)
NoMeas == <<>>
PubIdle == [pc |-> "idle", port |-> 0, all_meas |-> NoMeas, out |-> <<>>]

Heartbeat == [kind |-> "heartbeat", port |-> 0, val |-> 0]
\* f"{port} {0.0 if f is None else f}"
ChannelMsg(port, f) ==
    [kind |-> "channel", port |-> port, val |-> IF f = None THEN 0 ELSE f]

\* ZMQPubWorker.stop() is called in closeEvent after zmq_rep.wait(500)
PubStopped == mpc \in {"close_worker_wait", "save_config", "closed"}
\* zmq_pub.start() has been called and stop() has not
PubRunning == mpc \in {"running", "close_rep_wait"}

\* `while self._running and not self.isInterruptionRequested()`, then
\* `if now - last >= self.pub_period_s: pub.send_string("heartbeat")`
PubHeartbeat ==
    /\ PubRunning
    /\ pub.pc = "idle"
    /\ pub' = [pub EXCEPT !.pc = "copy", !.out = <<Heartbeat>>,
                          !.all_meas = NoMeas]
    /\ lastLog' = "" /\ emitted' = ""
    /\ UNCHANGED <<storeV, wkrV, q, act, dev, repV, mpc, fresh, obs, mutex,
                   sop, nrm>>

\* `all_meas = self.state.get_all_measurements()`
PubCopy ==
    /\ pub.pc = "copy"
    /\ pub' = [pub EXCEPT !.pc = "port", !.port = 1, !.all_meas = meas]
    /\ lastLog' = "" /\ emitted' = ""
    /\ UNCHANGED <<storeV, wkrV, q, act, dev, repV, mpc, fresh, obs, mutex,
                   sop, nrm>>

\* measurements read live from the store
PubSourceLive == meas
\* `m = all_meas.get(port, {})`
PubSource == pub.all_meas

\* one iteration of `for port in PORTS`; after the last one `last = now`
PubSend ==
    /\ pub.pc = "port"
    /\ LET port == pub.port
           f == PubSource[port].freq_display
       IN pub' = [pub EXCEPT
                    !.out = Append(@, ChannelMsg(port, f)),
                    !.port = IF port < NumPorts THEN port + 1 ELSE 0,
                    !.pc = IF port < NumPorts THEN "port" ELSE "idle"]
    /\ lastLog' = "" /\ emitted' = ""
    /\ UNCHANGED <<storeV, wkrV, q, act, dev, repV, mpc, fresh, obs, mutex,
                   sop, nrm>>

PubSteps == PubHeartbeat \/ PubCopy \/ PubSend

\* the loop test fails: pub.close(), ctx.term(), end of run()
PubExit ==
    /\ PubStopped
    /\ pub.pc = "idle"
    /\ pub' = [pub EXCEPT !.pc = "exited"]
    /\ lastLog' = "" /\ emitted' = ""
    /\ UNCHANGED <<storeV, wkrV, q, act, dev, repV, mpc, fresh, obs, mutex,
                   sop, nrm>>

(***************************************************************************)
(* Initial state: after the constructors, before _try_restore_config       *)
(***************************************************************************)
InitProgram ==
    /\ meas = [p \in PORTS |-> MeasDefault]
    /\ status = [p \in PORTS |-> StatusDefault]
    /\ globals = GlobalsDefault
    /\ w_running = FALSE
    /\ busy_fast = FALSE
    /\ last_good = [p \in PORTS |-> None]
    /\ w_lock = [p \in PORTS |-> FALSE]
    /\ w_active = TRUE
    /\ timers = FALSE
    /\ wthread = "notstarted"
    /\ q = [c \in Ctx |-> <<>>]
    /\ act = [c \in Ctx |-> Idle]
    /\ rpc = "notstarted"
    /\ rreq = NoMsg
    /\ rloc = RLoc0
    /\ r_running = TRUE
    /\ r_intr = FALSE
    /\ reply = NoReply
    /\ mpc = "init"
    /\ lastLog = ""
    /\ emitted = ""
    /\ fresh = FALSE
    /\ obs = Obs0
    /\ mutex = "free"
    /\ sop = [t \in Threads |-> NoCall(t)]
    /\ nrm = [p \in PORTS |-> NoCalls]
    /\ pub = PubIdle

(***************************************************************************)
(* SpecLock: command server and lock-wait against the polling worker       *)
(***************************************************************************)
InitLock ==
    /\ InitProgram
    /\ dev = DevBase

WorkerPolls(c) ==
    \/ FastPort(c)
    \/ SlowIsActive(c) \/ SlowGlobals(c) \/ SlowStatus(c)

SetpointSteps(c) == SetpointWrite(c) \/ SetpointReadback(c)

\* construction of the controller when nothing is restored
Startup == RestoreBegin \/ RestoreIsActive \/ RestoreSkip \/ MainStart

RepSteps ==
    \/ RepLoop \/ RepPollTimeout \/ (\E m \in Requests : RepRecv(m))
    \/ RepPvStatus \/ RepPvGlobals
    \/ WaitHead \/ WaitRead \/ WaitSleep \/ RepSend

NextLock ==
    \/ Startup
    \/ CloseStopRep
    \/ ServerToggle
    \/ RepSteps
    \/ TickFast \/ TickSlow
    \/ \E c \in Ctx : Dispatch(c)
    \/ \E c \in Ctx : WorkerPolls(c)
    \/ \E c \in Ctx : SetpointSteps(c)

SpecLock == InitLock /\ [][NextLock]_vars

(***************************************************************************)
(* SpecWait: the same system with no stop request and no server outage;    *)
(* the command server's thread is scheduled fairly while it is in the wait *)
(***************************************************************************)
WaitSteps == WaitHead \/ WaitRead \/ WaitSleep

NextWait ==
    \/ Startup
    \/ RepSteps
    \/ TickFast \/ TickSlow
    \/ \E c \in Ctx : Dispatch(c)
    \/ \E c \in Ctx : WorkerPolls(c)
    \/ \E c \in Ctx : SetpointSteps(c)

SpecWait == InitLock /\ [][NextWait]_vars /\ WF_vars(WaitSteps)

(***************************************************************************)
(* Properties of the lock-wait and of PROGRAM_VALUE                        *)
(***************************************************************************)
InWait == rpc \in {"wait_head", "wait_read", "wait_sleep"}
WaitSucceeded == rpc = "send" /\ rloc.status = "SUCCESS" /\ obs.pat # 0
WaitFailed ==
    /\ rpc = "send" /\ rloc.status = "ERROR"
    /\ rreq.action = "PROGRAM_VALUE"

\* C1: the wait's counter is the number of good observations (valid, not
\* the no-new-sample sentinel, display value present and within tolerance)
\* at the end of the observations so far, any other observation putting it
\* back to 0; success is returned only when the last two observations were
\* both good, so after in, out, in, in the wait has succeeded and after any
\* proper prefix of that stream it has not.
C1_LockWaitDebounce ==
    /\ rloc.consecutive = obs.run
    /\ WaitSucceeded => obs.run = 2
    /\ obs.pat \in 1..3 => ~WaitSucceeded
    /\ obs.pat = 4 => WaitSucceeded

C1_SuccessAfterSecondPair == WaitSucceeded /\ obs.pat = 4

\* C2: no observation that the wait counts is a sample it has already
\* looked at: between two looks that are counted the polling worker has
\* merged a measurement of the channel.
C2_CountedSamplesAreFresh == ~obs.stale

\* C3: with no stop request the wait fails only once the timeout has
\* elapsed, the failure is the reply ERROR 'Timeout waiting for lock', no
\* iteration of the loop runs after the timeout has elapsed, and every wait
\* ends.
C3_LockWaitTimeout ==
    /\ [](WaitFailed /\ ~RepStopped =>
             /\ rloc.elapsed >= LockTimeoutTicks
             /\ rloc.message = "Timeout waiting for lock")
    /\ [](rpc \in {"wait_read", "wait_sleep"} =>
             rloc.elapsed < LockTimeoutTicks)
    /\ (InWait ~> rpc = "send")

C3_TimedOut ==
    /\ WaitFailed /\ ~RepStopped
    /\ rloc.elapsed >= LockTimeoutTicks
    /\ obs.pat # 0

\* C4: once stop() has been called, the wait begins at most one more sleep,
\* its next loop test returns failure without another look at the store,
\* and the run loop's next test leaves the loop.
C4_LockWaitCancellation ==
    /\ [](obs.sleeps <= 1)
    /\ [][(rpc = "wait_head" /\ RepStopped /\ rpc' # rpc) =>
              (rpc' = "send" /\ rloc'.status = "ERROR")]_vars
    /\ [][(rpc = "loop" /\ RepStopped /\ rpc' # rpc) => rpc' = "exited"]_vars

C4_CancelledAfterOneSleep ==
    /\ WaitFailed /\ r_intr
    /\ rloc.elapsed < LockTimeoutTicks
    /\ obs.sleeps = 1

\* the setpoint write intent of the request is the newest entry of the
\* worker's event queue
Forwarded(m, queue) ==
    /\ queue # <<>>
    /\ queue[Len(queue)] =
          Event("setpoint", m.connection, m.value, FALSE, FALSE)

\* C5 as stated: PROGRAM_VALUE forwards the write intent before it reads
\* the store, then replies SUCCESS at once, with no look at the
\* measurement, unless the request asked for a wait and lock_enabled and
\* deviation_mode as read are both true, in which case it enters the wait.
C5_ImmediateUnlessRequested ==
    /\ [][(rpc = "polling" /\ rreq'.action = "PROGRAM_VALUE") =>
              (Forwarded(rreq', q'["worker"]) /\ rpc' = "pv_status")]_vars
    /\ [][(rpc = "pv_globals" /\ rpc' # rpc) =>
              IF rreq.wait = "true" /\ rloc.lock_enabled
                 /\ globals.deviation_mode
              THEN rpc' = "wait_head"
              ELSE rpc' = "send" /\ rloc'.status = "SUCCESS"
                   /\ obs' = Obs0]_vars

\* C5: PROGRAM_VALUE forwards the write intent before it reads the store,
\* then replies SUCCESS at once, with no look at the measurement, when the
\* request carries wait_for_lock false or lock_enabled or deviation_mode as
\* read is false; a request with wait_for_lock true or without the field
\* enters the wait when both flags are true.
C5_ImmediateUnlessWaitApplies ==
    /\ [][(rpc = "polling" /\ rreq'.action = "PROGRAM_VALUE") =>
              (Forwarded(rreq', q'["worker"]) /\ rpc' = "pv_status")]_vars
    /\ [][(rpc = "pv_globals" /\ rpc' # rpc) =>
              IF rreq.wait # "false" /\ rloc.lock_enabled
                 /\ globals.deviation_mode
              THEN rpc' = "wait_head"
              ELSE rpc' = "send" /\ rloc'.status = "SUCCESS"
                   /\ obs' = Obs0]_vars

C5_WaitEnteredWithoutField ==
    /\ InWait
    /\ rreq.wait = "absent"

\* C6: the reply to a PROGRAM_VALUE whose value is below the setpoint floor,
\* and the reply to a malformed request, is ERROR.
C6_InvalidInputGetsError ==
    (\/ reply.to.action = "MALFORMED"
     \/ (reply.to.action = "PROGRAM_VALUE"
         /\ reply.to.value < MIN_VALID_SETPOINT_THZ))
    => reply.status = "ERROR"

(***************************************************************************)
(* SpecWrite: operator requests from the GUI against the polling worker    *)
(***************************************************************************)
WriteSteps(c) ==
    \/ SetpointWrite(c) \/ SetpointReadback(c)
    \/ VoltageWrite(c) \/ VoltageReadback(c)
    \/ SwitcherWrite(c) \/ SwitcherReadback(c)
    \/ LockToggle(c)
    \/ AutocalWrite(c) \/ AutocalReadback(c)
    \/ DeviationWrite(c) \/ DeviationReadback(c)

GuiRequests ==
    \/ GuiSetpoint \/ GuiVoltage \/ GuiSwitcher
    \/ GuiLock \/ GuiAutocal \/ GuiDeviation

NextWrite ==
    \/ Startup
    \/ GuiRequests
    \/ TickFast \/ TickSlow
    \/ \E c \in Ctx : Dispatch(c)
    \/ \E c \in Ctx : WorkerPolls(c)
    \/ \E c \in Ctx : WriteSteps(c)

\* no light on any channel: every reading is ErrNoSignal
InitWrite ==
    /\ InitProgram
    /\ dev = [DevBase EXCEPT !.lit = [p \in PORTS |-> FALSE]]

SpecWrite == InitWrite /\ [][NextWrite]_vars

(***************************************************************************)
(* Properties of the write handlers                                        *)
(***************************************************************************)
\* the worker's event loop takes the event at the head of its queue
Dispatched(ev) ==
    /\ q["worker"] # <<>>
    /\ Head(q["worker"]) = ev
    /\ q'["worker"] = Tail(q["worker"])

\* C7: handle_setpoint_write with a value below MIN_VALID_SETPOINT_THZ
\* makes no device call, leaves the store, the worker's fields and the
\* instrument as they were and logs the rejection; with a value at or above
\* the floor it goes on to set_pid_course_num and then to the readback.
C7_SetpointFloorRejection ==
    /\ [][\A p \in PORTS, v \in Targets :
            Dispatched(Event("setpoint", p, v, FALSE, FALSE)) =>
               IF v < MIN_VALID_SETPOINT_THZ
               THEN /\ UNCHANGED <<act, storeV, wkrV, dev>>
                    /\ lastLog' = "Setpoint write REJECTED"
               ELSE act'["worker"] =
                       Activation("setpoint", "set_pid_course_num", p, v,
                                  FALSE, FALSE)]_vars
    /\ [][(At("worker", "setpoint", "set_pid_course_num") /\ act' # act) =>
              act'["worker"].pc = "get_pid_course_num"]_vars

C7_RejectedBelowFloor ==
    /\ lastLog = "Setpoint write REJECTED"
    /\ act["worker"] = Idle
    /\ status[1].setpoint = DevBase.sp[1]

\* a write handler of kind h returns to the event loop
Completed(c, h) == act[c].h = h /\ act'[c].h = "idle"

\* C8: when a write handler returns, the field it merged into the store is
\* what the instrument holds, whether or not the instrument took the value.
C8_StoredIsReadback ==
    [][\A c \in Ctx :
         LET p == act[c].port
         IN /\ Completed(c, "setpoint") => status'[p].setpoint = dev'.sp[p]
            /\ Completed(c, "voltage") => meas'[p].volt = dev'.volt[p]
            /\ Completed(c, "switcher") =>
                  /\ status'[p].use = (dev'.use[p] # 0)
                  /\ status'[p].show = (dev'.show[p] # 0)
            /\ Completed(c, "lock") =>
                  status'[p].lock_enabled = dev'.assign[p]
            /\ Completed(c, "autocal") =>
                  globals'.autocal = (dev'.autocal = 1)
            /\ Completed(c, "deviation") =>
                  globals'.deviation_mode = (dev'.deviation_mode = 1)]_vars

\* C10: every handler runs on the worker thread, a tick or a write handler
\* begins only when no handler is partway, and at most one thread is inside
\* the device wrapper.
C10_HandlersSerialized ==
    /\ [](\A c \in Ctx \ {"worker"} : act[c] = Idle)
    /\ [](Cardinality({c \in Ctx : InDeviceCall(c)}) <= 1)
    /\ [][\A c \in Ctx :
            (act[c].h = "idle" /\ act'[c].h # "idle") =>
               \A d \in Ctx : act[d].h = "idle"]_vars

C10_WriteQueuedBehindTick ==
    /\ act["worker"].h \in {"fast", "slow"}
    /\ q["worker"] # <<>>
    /\ Head(q["worker"]).h \in {"setpoint", "voltage", "switcher", "lock",
                                "autocal", "deviation"}

(***************************************************************************)
(* SpecLife: start-up, polling and closeEvent                              *)
(***************************************************************************)
Shutdown ==
    \/ CloseStopRep \/ CloseInvokeStop \/ CloseSaveBegin \/ CloseSaveEnd

NextLife ==
    \/ Startup \/ RestoreAccept \/ RestoreWrite
    \/ Shutdown
    \/ ServerToggle
    \/ RepLoop \/ RepPollTimeout
    \/ GuiSetpoint \/ GuiVoltage
    \/ TickFast \/ TickSlow
    \/ \E c \in Ctx : Dispatch(c)
    \/ \E c \in Ctx : WorkerPolls(c)
    \/ \E c \in Ctx : (SetpointSteps(c) \/ VoltageWrite(c) \/ VoltageReadback(c))

SpecLife == InitLock /\ [][NextLife]_vars

\* C9: the main thread is never inside a config.* call on the device
\* wrapper while a handler of the worker is inside the device wrapper.
C9_MainNeverOverlapsWorker ==
    ~(MainInDeviceCall /\ InDeviceCall("worker") /\ wthread = "running")

(***************************************************************************)
(* SharedExperimentState, method by method: QMutexLocker, then the merge   *)
(* or the copies, then the release at the end of the `with` block          *)
(***************************************************************************)
Updaters == {"update_measurement", "update_status", "update_globals"}
Getters == {"get_measurement", "get_all_measurements", "get_status",
            "get_all_status", "get_globals", "get_gui_snapshot"}

\* deltas of the callers: a fast-poll packet, the lock delta, the
\* deviation-mode delta
MeasDeltas ==
    {[freq_raw |-> 1000004, freq_display |-> 1000004, freq_plot |-> 1000004,
      valid |-> TRUE, volt |-> 0, exp |-> ExpReading, amp |-> AmpReading]}
StatusDeltas == {[lock_enabled |-> e] : e \in BOOLEAN}
GlobalsDeltas == {[deviation_mode |-> e] : e \in BOOLEAN}

\* the store methods each thread calls; get_all_status has no caller in
\* the program and is called here from the GUI thread
CallsOf(t) ==
    CASE t = "worker" -> Updaters
      [] t = "rep" -> {"get_measurement", "get_status", "get_globals"}
      [] t = "pub" -> {"get_all_measurements"}
      [] OTHER -> {"get_all_measurements", "get_all_status",
                   "get_gui_snapshot"}

DeltasOf(op) ==
    CASE op = "update_measurement" -> MeasDeltas
      [] op = "update_status" -> StatusDeltas
      [] op = "update_globals" -> GlobalsDeltas
      [] OTHER -> {<<>>}

PortsOf(op) ==
    IF op \in {"update_measurement", "update_status", "get_measurement",
               "get_status"}
    THEN PORTS ELSE {0}

\* the thread enters a store method and reaches its QMutexLocker
StoreCall(t) ==
    /\ sop[t].pc = Outside(t)
    /\ \E op \in CallsOf(t) : \E port \in PortsOf(op), delta \in DeltasOf(op) :
          sop' = [sop EXCEPT ![t] =
                     [op |-> op, pc |-> "lock", port |-> port,
                      delta |-> delta, todo |-> DOMAIN delta,
                      res |-> NoCopy, at |-> <<>>]]
    /\ lastLog' = "" /\ emitted' = ""
    /\ UNCHANGED <<storeV, wkrV, q, act, dev, repV, mpc, fresh, obs, pub, mutex,
                   nrm>>

\* a call that enters without waiting for the mutex
MutexIgnored == TRUE
\* QMutexLocker(self._mutex) blocks until the mutex is free
MutexFree == mutex = "free"

\* some thread is between two key writes of a merge
MidMerge ==
    \E u \in Threads :
        /\ sop[u].op \in Updaters /\ sop[u].pc = "in"
        /\ sop[u].todo # DOMAIN sop[u].delta

StoreAcquire(t) ==
    /\ sop[t].pc = "lock"
    /\ MutexFree
    /\ mutex' = t
    /\ sop' = [sop EXCEPT ![t].pc = "in",
                          ![t].at = [meas |-> meas, status |-> status,
                                     globals |-> globals,
                                     whole |-> ~MidMerge]]
    /\ lastLog' = "" /\ emitted' = ""
    /\ UNCHANGED <<storeV, wkrV, q, act, dev, repV, mpc, fresh, obs, pub, nrm>>

\* dict.update(delta) writes the keys of delta one after another
NextKey(todo) == CHOOSE k \in todo : TRUE
OneKey(delta, k) == [x \in {k} |-> delta[k]]

StoreMerge(t) ==
    /\ sop[t].pc = "in"
    /\ sop[t].op \in Updaters
    /\ LET k == NextKey(sop[t].todo)
           d == OneKey(sop[t].delta, k)
           left == sop[t].todo \ {k}
       IN /\ CASE sop[t].op = "update_measurement" ->
                    /\ meas' = update_measurement(meas, sop[t].port, d)
                    /\ UNCHANGED <<status, globals>>
               [] sop[t].op = "update_status" ->
                    /\ status' = update_status(status, sop[t].port, d)
                    /\ UNCHANGED <<meas, globals>>
               [] OTHER ->
                    /\ globals' = update_globals(globals, d)
                    /\ UNCHANGED <<meas, status>>
          /\ sop' = [sop EXCEPT ![t].todo = left,
                                ![t].pc = IF left = {} THEN "ret" ELSE "in"]
    /\ lastLog' = "" /\ emitted' = ""
    /\ UNCHANGED <<wkrV, q, act, dev, repV, mpc, fresh, obs, pub, mutex, nrm>>

\* one .copy() of a reader: the dict of one channel, or the globals
StoreCopy(t) ==
    /\ sop[t].pc = "in"
    /\ sop[t].op \in Getters
    /\ LET op == sop[t].op
           r == sop[t].res
           nm == Len(r.m) + 1
           ns == Len(r.s) + 1
       IN CASE op = "get_measurement" ->
                 sop' = [sop EXCEPT ![t].res.m = <<meas[sop[t].port]>>,
                                    ![t].pc = "ret"]
            [] op = "get_status" ->
                 sop' = [sop EXCEPT ![t].res.s = <<status[sop[t].port]>>,
                                    ![t].pc = "ret"]
            [] op = "get_globals" ->
                 sop' = [sop EXCEPT ![t].res.g = <<globals>>,
                                    ![t].pc = "ret"]
            [] op = "get_all_measurements" ->
                 sop' = [sop EXCEPT ![t].res.m = Append(r.m, meas[nm]),
                                    ![t].pc = IF nm = NumPorts THEN "ret"
                                              ELSE "in"]
            [] op = "get_all_status" ->
                 sop' = [sop EXCEPT ![t].res.s = Append(r.s, status[ns]),
                                    ![t].pc = IF ns = NumPorts THEN "ret"
                                              ELSE "in"]
            [] OTHER ->
                 IF nm <= NumPorts
                 THEN sop' = [sop EXCEPT ![t].res.m = Append(r.m, meas[nm])]
                 ELSE IF ns <= NumPorts
                 THEN sop' = [sop EXCEPT ![t].res.s = Append(r.s, status[ns])]
                 ELSE sop' = [sop EXCEPT ![t].res.g = <<globals>>,
                                         ![t].pc = "ret"]
    /\ lastLog' = "" /\ emitted' = ""
    /\ UNCHANGED <<storeV, wkrV, q, act, dev, repV, mpc, fresh, obs, pub, mutex,
                   nrm>>

\* a locker that does not unlock
LockerKeepsMutex == FALSE
\* the `with` block ends: the locker's destructor unlocks the mutex
LockerUnlocks == TRUE

StoreReturn(t) ==
    /\ sop[t].pc = "ret"
    /\ mutex' = IF LockerUnlocks THEN "free" ELSE mutex
    /\ sop' = [sop EXCEPT ![t] = NoCall(t)]
    /\ lastLog' = "" /\ emitted' = ""
    /\ UNCHANGED <<storeV, wkrV, q, act, dev, repV, mpc, fresh, obs, pub, nrm>>

StoreSteps(t) == StoreMerge(t) \/ StoreCopy(t) \/ StoreReturn(t)

NextStore ==
    \/ \E t \in Threads : StoreCall(t)
    \/ \E t \in Threads : StoreAcquire(t)
    \/ \E t \in Threads : StoreSteps(t)

\* a thread inside a method runs on, and a free mutex is handed to a waiter
SpecStore ==
    /\ InitLock
    /\ [][NextStore]_vars
    /\ \A t \in Threads : WF_vars(StoreSteps(t))
    /\ WF_vars(\E t \in Threads : StoreAcquire(t))

(***************************************************************************)
(* Properties of the store                                                 *)
(***************************************************************************)
\* what a getter returns when it copies the store as it was at one instant
Expected(op, port, at) ==
    CASE op = "get_measurement" ->
            [m |-> <<at.meas[port]>>, s |-> <<>>, g |-> <<>>]
      [] op = "get_all_measurements" ->
            [m |-> at.meas, s |-> <<>>, g |-> <<>>]
      [] op = "get_status" ->
            [m |-> <<>>, s |-> <<at.status[port]>>, g |-> <<>>]
      [] op = "get_all_status" ->
            [m |-> <<>>, s |-> at.status, g |-> <<>>]
      [] op = "get_globals" ->
            [m |-> <<>>, s |-> <<>>, g |-> <<at.globals>>]
      [] OTHER ->
            [m |-> at.meas, s |-> at.status, g |-> <<at.globals>>]

\* C11: what a getter is about to return is the store as it was at the one
\* instant at which the getter took the mutex, no merge was between two of
\* its key writes at that instant, and get_gui_snapshot's three sub-maps
\* are those of that same instant.
C11_AtomicSnapshot ==
    \A t \in Threads :
        (sop[t].pc = "ret" /\ sop[t].op \in Getters) =>
            /\ sop[t].at.whole
            /\ sop[t].res = Expected(sop[t].op, sop[t].port, sop[t].at)

C11_SnapshotWhileWriterWaits ==
    /\ sop["main"].op = "get_gui_snapshot" /\ sop["main"].pc = "ret"
    /\ sop["main"].res.m[1].valid
    /\ sop["worker"].pc = "lock"
    /\ sop["worker"].op = "update_measurement"

\* C12: a thread that holds the store's mutex is inside a merge or a copy
\* (never in a device call, a socket send or receive, a sleep of the
\* lock-wait or the GUI), every acquisition is followed by its release, and
\* whenever some call waits for the mutex some call gets it.
C12_MutexOnlyAroundMemoryWork ==
    /\ [](\A t \in Threads :
            /\ mutex = t => sop[t].pc \in {"in", "ret"}
            /\ sop[t].pc \in {"in", "ret"} => mutex = t)
    /\ (mutex # "free") ~> (mutex = "free")
    /\ (\E t \in Threads : sop[t].pc = "lock")
            ~> (\E t \in Threads : sop[t].pc = "in")

C12_HeldWhileOthersWait ==
    /\ mutex = "worker" /\ sop["worker"].pc = "in"
    /\ sop["rep"].pc = "lock" /\ sop["pub"].pc = "lock"
    /\ sop["main"].pc = "lock"

\* C13: the store always holds a measurement entry and a status entry for
\* every configured channel, each with exactly the fields it was built
\* with, and a globals entry with all of its fields: no merge removes a
\* channel or a field, so a reader never meets a missing key.
C13_NoMissingKey ==
    /\ DOMAIN meas = PORTS
    /\ DOMAIN status = PORTS
    /\ \A p \in PORTS :
        /\ DOMAIN meas[p] = DOMAIN MeasDefault
        /\ DOMAIN status[p] = DOMAIN StatusDefault
    /\ DOMAIN globals = DOMAIN GlobalsDefault

C13_AllSubMapsMerged ==
    /\ meas[1].freq_raw # None
    /\ meas[1].volt # MeasDefault.volt
    /\ status[1].lock_enabled
    /\ status[1].setpoint # StatusDefault.setpoint
    /\ globals.deviation_mode

\* new is old with exactly the fields of delta overwritten
MergedInto(old, new, delta) ==
    \A k \in DOMAIN old :
        new[k] = IF k \in DOMAIN delta THEN delta[k] ELSE old[k]

\* C14: when an update call is about to return, the entry it addressed
\* holds the delta's values in the delta's fields and its earlier values in
\* every other field, and every other channel and both other sub-maps are
\* as they were when the call took the mutex.
C14_DeltaMergeFrame ==
    \A t \in Threads :
        (sop[t].pc = "ret" /\ sop[t].op \in Updaters) =>
            LET c == sop[t] IN
            CASE c.op = "update_measurement" ->
                    /\ MergedInto(c.at.meas[c.port], meas[c.port], c.delta)
                    /\ \A p \in PORTS \ {c.port} : meas[p] = c.at.meas[p]
                    /\ status = c.at.status
                    /\ globals = c.at.globals
              [] c.op = "update_status" ->
                    /\ MergedInto(c.at.status[c.port], status[c.port], c.delta)
                    /\ \A p \in PORTS \ {c.port} : status[p] = c.at.status[p]
                    /\ meas = c.at.meas
                    /\ globals = c.at.globals
              [] OTHER ->
                    /\ MergedInto(c.at.globals, globals, c.delta)
                    /\ meas = c.at.meas
                    /\ status = c.at.status

C14_OneFieldOfOneChannelMerged ==
    /\ sop["worker"].pc = "ret"
    /\ sop["worker"].op = "update_status"
    /\ sop["worker"].port = 2
    /\ sop["worker"].at.status[2].lock_enabled
    /\ ~status[2].lock_enabled
    /\ status[1].lock_enabled
    /\ meas[2].valid
    /\ globals.deviation_mode

(***************************************************************************)
(* The normalizer on sequences of readings                                 *)
(***************************************************************************)
\* what GetFrequencyNum can return for a channel
NormReadings == GenuineReadings \cup {InfNothingChanged} \cup HARD_INVALID

RECURSIVE CallsMade(_)
CallsMade(S) ==
    IF S = {} THEN 0
    ELSE LET p == CHOOSE x \in S : TRUE
         IN Len(nrm[p]) + CallsMade(S \ {p})

\* a single slot read for every channel
LastOfFirstChannel(port) == last_good[1]
\* `last = self._last_good_freq.get(port)`
Last(port) == last_good[port]

\* one call of _normalize_frequency(port, f_raw); nrm[port] keeps the
\* reading, _last_good_freq[port] before and after, and the four outputs
Normalize(port) ==
    /\ CallsMade(PORTS) < MaxCalls
    /\ \E f_raw \in NormReadings :
          LET n == NormalizeFrequency(Last(port), f_raw)
          IN /\ last_good' = [last_good EXCEPT ![port] = n.last]
             /\ nrm' = [nrm EXCEPT ![port] =
                          Append(@, [in |-> f_raw, before |-> Last(port),
                                     raw |-> n.raw, disp |-> n.disp,
                                     plot |-> n.plot, valid |-> n.valid,
                                     after |-> n.last])]
    /\ lastLog' = "" /\ emitted' = ""
    /\ UNCHANGED <<storeV, w_running, busy_fast, w_lock, w_active, timers,
                   wthread, q, act, dev, repV, mpc, fresh, obs, pub, mutex, sop>>

NextNorm == \E port \in PORTS : Normalize(port)

SpecNorm == InitLock /\ [][NextNorm]_vars

\* the calls made so far, of any channel
NormCalls == {<<p, i>> : p \in PORTS, i \in 1..MaxCalls}
Made(c) == c[2] <= Len(nrm[c[1]])
Call(c) == nrm[c[1]][c[2]]

\* C15 (as stated): on the "no new sample" reading with a last-good value
\* the call reports valid and all three outputs, the raw one included, equal
\* the last-good value, which is left unchanged.
C15_HeldInAllThreeOutputs ==
    \A c \in NormCalls :
        (Made(c) /\ Call(c).in = InfNothingChanged /\ Call(c).before # None) =>
            /\ Call(c).valid
            /\ Call(c).raw = Call(c).before
            /\ Call(c).disp = Call(c).before
            /\ Call(c).plot = Call(c).before
            /\ Call(c).after = Call(c).before

\* C15 (amended): on the "no new sample" reading with a last-good value the
\* call reports valid, the display and plot outputs equal the last-good
\* value, the raw output is the sentinel itself, and the last-good value is
\* left unchanged.
C15_HeldInDisplayAndPlot ==
    \A c \in NormCalls :
        (Made(c) /\ Call(c).in = InfNothingChanged /\ Call(c).before # None) =>
            /\ Call(c).valid
            /\ Call(c).raw = InfNothingChanged
            /\ Call(c).disp = Call(c).before
            /\ Call(c).plot = Call(c).before
            /\ Call(c).after = Call(c).before

C15_NoNewSampleWithHistory ==
    \E c \in NormCalls :
        /\ Made(c) /\ Call(c).in = InfNothingChanged
        /\ Call(c).before \in GenuineReadings
        /\ Call(c).disp = Call(c).before

\* C16 (as stated): on the "no new sample" reading without a last-good
\* value the call reports invalid and all three outputs are null.
C16_ColdStartAllNull ==
    \A c \in NormCalls :
        (Made(c) /\ Call(c).in = InfNothingChanged /\ Call(c).before = None) =>
            /\ ~Call(c).valid
            /\ Call(c).raw = None
            /\ Call(c).disp = None
            /\ Call(c).plot = None

\* C16 (amended): on the "no new sample" reading without a last-good value
\* the call reports invalid, the display and plot outputs are null, the raw
\* output is the sentinel itself, and there is still no last-good value.
C16_ColdStartNoDisplayNoPlot ==
    \A c \in NormCalls :
        (Made(c) /\ Call(c).in = InfNothingChanged /\ Call(c).before = None) =>
            /\ ~Call(c).valid
            /\ Call(c).raw = InfNothingChanged
            /\ Call(c).disp = None
            /\ Call(c).plot = None
            /\ Call(c).after = None

C16_FirstReadingIsNoNewSample ==
    /\ Len(nrm[1]) = 1
    /\ nrm[1][1].in = InfNothingChanged
    /\ ~nrm[1][1].valid

\* C17: on a hard-failure reading the call reports invalid, the plot output
\* is null, the display output is the last-good value (null when there is
\* none) and the last-good value is not modified.
C17_HardFailure ==
    \A c \in NormCalls :
        (Made(c) /\ Call(c).in \in HARD_INVALID) =>
            /\ ~Call(c).valid
            /\ Call(c).plot = None
            /\ Call(c).disp = Call(c).before
            /\ Call(c).after = Call(c).before

C17_HardFailureWithAndWithoutHistory ==
    /\ Len(nrm[1]) = 1 /\ Len(nrm[2]) = 2
    /\ nrm[1][1].in = ErrUnitNotAvailable /\ nrm[1][1].disp = None
    /\ nrm[2][2].in = ErrNoValue /\ nrm[2][2].disp \in GenuineReadings

\* C18: on a reading that is neither the "no new sample" sentinel nor a
\* hard-failure sentinel the call sets the last-good value to the reading,
\* reports valid, and the raw, display and plot outputs equal the reading.
C18_GenuineReading ==
    \A c \in NormCalls :
        (Made(c) /\ Call(c).in # InfNothingChanged
                 /\ Call(c).in \notin HARD_INVALID) =>
            /\ Call(c).after = Call(c).in
            /\ Call(c).valid
            /\ Call(c).raw = Call(c).in
            /\ Call(c).disp = Call(c).in
            /\ Call(c).plot = Call(c).in

C18_GenuineReplacesLastGood ==
    \E c \in NormCalls :
        /\ Made(c) /\ Call(c).in = 1000005 /\ Call(c).before = 1000004
        /\ last_good[c[1]] = 1000005

\* the reading is a sentinel of either kind
IsGap(f_raw) == f_raw = InfNothingChanged \/ f_raw \in HARD_INVALID

\* C19: after a genuine reading v of a channel, at every following call of
\* that channel made before the next genuine reading the display output is
\* v, valid is true exactly when the reading is "no new sample", and the
\* plot output is v where valid is true and null elsewhere.
C19_HoldOnGap ==
    \A p \in PORTS : \A j \in 1..Len(nrm[p]) : \A i \in 1..Len(nrm[p]) :
        (/\ j < i
         /\ ~IsGap(nrm[p][j].in)
         /\ \A k \in (j + 1)..i : IsGap(nrm[p][k].in)) =>
            LET v == nrm[p][j].in
                r == nrm[p][i]
            IN /\ r.disp = v
               /\ r.valid = (r.in = InfNothingChanged)
               /\ r.plot = IF r.in = InfNothingChanged THEN v ELSE None

\* the readings [v, no-new-sample, hard failure, no-new-sample]
C19_ExampleSequence ==
    /\ Len(nrm[1]) = 4
    /\ [i \in 1..4 |-> nrm[1][i].in] =
            <<1000005, InfNothingChanged, ErrNoSignal, InfNothingChanged>>
    /\ [i \in 1..4 |-> nrm[1][i].disp] = <<1000005, 1000005, 1000005, 1000005>>
    /\ [i \in 1..4 |-> nrm[1][i].valid] = <<TRUE, TRUE, FALSE, TRUE>>
    /\ [i \in 1..4 |-> nrm[1][i].plot] = <<1000005, 1000005, None, 1000005>>

(***************************************************************************)
(* SpecPoll: the polling worker alone, on an instrument whose calls can    *)
(* raise                                                                   *)
(***************************************************************************)
InitPoll ==
    /\ InitProgram
    /\ dev = [DevBase EXCEPT !.flaky = TRUE]

PollSteps(c) ==
    \/ FastPort(c) \/ FastPortRaise(c)
    \/ SlowIsActive(c)
    \/ SlowGlobals(c) \/ SlowGlobalsRaise(c)
    \/ SlowStatus(c) \/ SlowStatusRaise(c)

NextPoll ==
    \/ Startup
    \/ TickFast \/ TickSlow
    \/ \E c \in Ctx : Dispatch(c)
    \/ \E c \in Ctx : PollSteps(c)

SpecPoll == InitPoll /\ [][NextPoll]_vars

\* C20: whenever a genuine reading has been obtained for a channel (the
\* normalizer has recorded a last-good value for it), the display frequency
\* stored for that channel is not null, also after a later device call of
\* the same fast tick has failed.
C20_DisplayNonNullAfterGenuine ==
    \A p \in PORTS :
        last_good[p] # None => meas[p].freq_display # None

(***************************************************************************)
(* SpecMeas: the writers of the measurement entries, the fast poll and     *)
(* handle_voltage_write, on an instrument with a laser on channel 1        *)
(***************************************************************************)
NextMeas ==
    \/ Startup
    \/ GuiVoltage
    \/ TickFast
    \/ \E c \in Ctx : Dispatch(c)
    \/ \E c \in Ctx : FastPort(c)
    \/ \E c \in Ctx : VoltageWrite(c) \/ VoltageReadback(c)

SpecMeas == InitLock /\ [][NextMeas]_vars

\* C21: for every channel the stored freq_plot is null exactly when the
\* stored valid is false or the stored raw reading is a hard-invalid code,
\* from the defaults on, after every fast tick and write handler.
C21_PlotNullIffInvalid ==
    \A p \in PORTS :
        (meas[p].freq_plot = None) <=>
            (~meas[p].valid \/ meas[p].freq_raw \in HARD_INVALID)

C21_HeldSamplePlottedAfterVoltageWrite ==
    /\ meas[1].valid
    /\ meas[1].freq_raw = InfNothingChanged
    /\ meas[1].freq_plot \in GenuineReadings
    /\ meas[1].volt = 7
    /\ meas[2].freq_raw = ErrNoSignal
    /\ meas[2].freq_plot = None

\* the four outputs and the next last-good value of a recorded call
Outputs(r) == <<r.raw, r.disp, r.plot, r.valid, r.after>>

\* C22: the outputs and the next last-good value of a call are a function
\* of the channel's prior last-good value and the raw reading, and two
\* channels started without a last-good value and fed the same readings
\* produce the same outputs call by call, whatever was read on the other
\* channel in between.
C22_NormalizerDeterminism ==
    /\ \A c \in NormCalls, d \in NormCalls :
          (/\ Made(c) /\ Made(d)
           /\ Call(c).before = Call(d).before
           /\ Call(c).in = Call(d).in) =>
              Outputs(Call(c)) = Outputs(Call(d))
    /\ \A p \in PORTS, r \in PORTS : \A k \in 1..MaxCalls :
          (/\ k <= Len(nrm[p]) /\ k <= Len(nrm[r])
           /\ \A i \in 1..k : nrm[p][i].in = nrm[r][i].in) =>
              \A i \in 1..k : Outputs(nrm[p][i]) = Outputs(nrm[r][i])

C22_SameReadingsOnTwoChannels ==
    /\ Len(nrm[1]) = 2 /\ Len(nrm[2]) = 2
    /\ nrm[1][1].in = 1000004 /\ nrm[2][1].in = 1000004
    /\ nrm[1][2].in = InfNothingChanged /\ nrm[2][2].in = InfNothingChanged
    /\ nrm[1][2].disp = 1000004 /\ nrm[2][2].disp = 1000004

(***************************************************************************)
(* SpecGuard: SpecPoll with the fast timer's timeout delivered while a     *)
(* device call of the running _poll_fast dispatches pending events         *)
(***************************************************************************)
TickFastNested ==
    /\ wthread = "running"
    /\ timers
    /\ At("worker", "fast", "port")
    /\ PollFastEnter("worker")
    /\ Quiet
    /\ UNCHANGED <<storeV, w_running, last_good, w_lock, w_active, timers,
                   wthread, q, dev, repV, mpc, fresh, obs>>

NextGuard == NextPoll \/ TickFastNested

SpecGuard == InitPoll /\ [][NextGuard]_vars

\* C23: a fast tick invoked while _busy_fast is set makes no device call,
\* merges nothing, starts no loop and leaves nothing queued; and the flag is
\* set exactly while a fast tick is executing, so it is cleared when the
\* tick ends, normally or after a device call has raised.
C23_ReentrancyGuard ==
    /\ [](busy_fast <=> act["worker"].h = "fast")
    /\ [][TickFastNested =>
            UNCHANGED <<act, busy_fast, storeV, last_good, dev, q>>]_vars

C23_GuardSetDuringTick ==
    /\ busy_fast
    /\ timers
    /\ act["worker"].h = "fast" /\ act["worker"].port = 2
    /\ meas[1].freq_raw # None
    /\ meas[2].freq_raw = None

(***************************************************************************)
(* SpecOutage: the polling worker and setpoint writes from the GUI while   *)
(* the wavemeter server goes away and comes back                           *)
(***************************************************************************)
NextOutage ==
    \/ Startup
    \/ ServerToggle
    \/ GuiSetpoint
    \/ TickFast \/ TickSlow
    \/ \E c \in Ctx : Dispatch(c)
    \/ \E c \in Ctx : WorkerPolls(c)
    \/ \E c \in Ctx : SetpointSteps(c)

SpecOutage == InitLock /\ [][NextOutage]_vars

\* the worker executes the statement its activation stands at
WorkerStepsFrom(h, pc) ==
    At("worker", h, pc) /\ act'["worker"] # act["worker"]

\* C24: a slow tick whose presence check finds no server ends there, with
\* wlm_active false in the store and in the worker and nothing else changed
\* in the store or the instrument; a fast tick that runs while the worker's
\* presence flag is false starts no loop, calls no device operation and
\* leaves the measurements unchanged.
C24_DeviceAbsent ==
    /\ [][(WorkerStepsFrom("slow", "is_active") /\ ~dev.active) =>
            /\ Free("worker")'
            /\ ~w_active'
            /\ globals' = [globals EXCEPT !.wlm_active = FALSE]
            /\ UNCHANGED <<meas, status, dev, last_good, q>>]_vars
    /\ [][(TickFast /\ ~w_active) =>
            UNCHANGED <<act, busy_fast, storeV, last_good, dev, q>>]_vars

C24_OfflineAfterSlowTick ==
    /\ ~dev.active
    /\ ~w_active
    /\ ~globals.wlm_active
    /\ Free("worker")
    /\ lastLog = "WLM server not detected"
    /\ meas[1].valid
    /\ globals.temperature = dev.temperature

\* the worker executes a statement that reads from the instrument (the
\* presence check excepted)
WorkerReadsDevice ==
    \/ WorkerStepsFrom("fast", "port")
    \/ WorkerStepsFrom("slow", "globals")
    \/ WorkerStepsFrom("slow", "status")
    \/ WorkerStepsFrom("setpoint", "get_pid_course_num")

\* C25: while the store's wlm_active is false the polling worker executes
\* no device read other than the presence check, the readback of a write
\* command that arrives during the outage included.
C25_NoReadWhileOffline ==
    [][~globals.wlm_active => ~WorkerReadsDevice]_vars

(***************************************************************************)
(* SpecRecover: SpecOutage with the main thread and the worker's event     *)
(* loop running and both timers firing again and again                     *)
(***************************************************************************)
WorkerRuns ==
    \/ Dispatch("worker")
    \/ WorkerPolls("worker")
    \/ SetpointSteps("worker")

SpecRecover ==
    /\ InitLock /\ [][NextOutage]_vars
    /\ WF_vars(Startup)
    /\ WF_vars(WorkerRuns)
    /\ SF_vars(TickSlow)
    /\ SF_vars(TickFast)

\* C26: a slow tick whose presence check finds the server sets wlm_active
\* true in the store and in the worker; and if from some moment on the
\* server is present and the worker is running, then from some moment on
\* the store holds wlm_active true, and measurements are merged by the fast
\* poll again and again.
C26_AutomaticRecovery ==
    /\ [][(WorkerStepsFrom("slow", "is_active") /\ dev.active) =>
            (globals.wlm_active /\ w_active)']_vars
    /\ (<>[](dev.active /\ w_running)) =>
            /\ <>[](globals.wlm_active /\ w_active)
            /\ []<><<FastPort("worker")>>_vars

C26_ServerDetectedAgain ==
    /\ dev.active
    /\ w_active
    /\ globals.wlm_active
    /\ lastLog = "WLM server detected"
    /\ w_running

(***************************************************************************)
(* SpecPub: the publisher next to the fast poll                            *)
(***************************************************************************)
NextPub ==
    \/ Startup
    \/ TickFast
    \/ \E c \in Ctx : Dispatch(c)
    \/ \E c \in Ctx : FastPort(c)
    \/ PubSteps

SpecPub == InitLock /\ [][NextPub]_vars

\* C27: the messages of a pass of the publisher's loop body are one
\* heartbeat first and then one message per channel in ascending channel
\* order, each with the channel number and the freq_display that the one
\* get_all_measurements copy of this pass holds for it (0.0 for None); a
\* finished pass has sent all of them; and no step of the publisher changes
\* the store, the instrument or a queue.
C27_PublisherTick ==
    /\ [](/\ pub.pc # "idle" => Len(pub.out) >= 1
          /\ pub.pc = "port" => Len(pub.out) = pub.port
          /\ (pub.pc = "idle" /\ pub.out # <<>>) =>
                Len(pub.out) = NumPorts + 1
          /\ \A i \in 1..Len(pub.out) :
                IF i = 1
                THEN pub.out[i] = Heartbeat
                ELSE /\ pub.out[i].kind = "channel"
                     /\ pub.out[i].port = i - 1
                     /\ pub.out[i].val =
                          IF pub.all_meas[i - 1].freq_display = None
                          THEN 0
                          ELSE pub.all_meas[i - 1].freq_display)
    /\ [][PubSteps => UNCHANGED <<storeV, dev, q, act, last_good>>]_vars

C27_PassFromOneCopy ==
    /\ pub.pc = "idle"
    /\ Len(pub.out) = NumPorts + 1
    /\ pub.out[2].val = 1000004
    /\ pub.out[3].val = 0
    /\ meas[1].freq_display = 1000005
    /\ meas[2].freq_raw = ErrNoSignal

(***************************************************************************)
(* SpecProto: the command server answering requests other than a complete  *)
(* PROGRAM_VALUE, while the worker polls and the GUI writes setpoints      *)
(***************************************************************************)
NextProto ==
    \/ Startup
    \/ RepLoop \/ RepPollTimeout \/ RepSend
    \/ \E m \in ProtoRequests : RepRecv(m)
    \/ GuiSetpoint
    \/ TickSlow
    \/ \E c \in Ctx : Dispatch(c)
    \/ \E c \in Ctx : SlowIsActive(c) \/ SlowGlobals(c) \/ SlowStatus(c)
    \/ \E c \in Ctx : SetpointSteps(c)

SpecProto == InitLock /\ [][NextProto]_vars

\* the server takes a request off the socket
Receives == rpc = "polling" /\ rreq' # rreq

\* C28: HELLO is answered SUCCESS; CHECK_VALUE SUCCESS with the setpoint
\* the channel's status entry holds when the request is handled; an unknown
\* action ERROR with "Unknown action"; an unparsable request or one without
\* a field its action needs ERROR with a message; and in none of these
\* cases does the server queue a write or change the store or the
\* instrument, from the receipt to the reply.
C28_ProtocolReplies ==
    /\ [](reply.status # "-" =>
            LET m == reply.to IN
            IF m.action = "MALFORMED" \/ Incomplete(m)
            THEN reply.status = "ERROR" /\ reply.message # ""
            ELSE CASE m.action = "HELLO" -> reply.status = "SUCCESS"
                   [] m.action = "CHECK_VALUE" -> reply.status = "SUCCESS"
                   [] m.action = "PROGRAM_VALUE" -> TRUE
                   [] OTHER -> /\ reply.status = "ERROR"
                               /\ reply.message = "Unknown action")
    /\ [][(Receives /\ (rreq'.action # "PROGRAM_VALUE" \/ Incomplete(rreq'))) =>
            /\ rpc' = "send"
            /\ UNCHANGED <<storeV, q, dev, act>>
            /\ (rreq'.action = "CHECK_VALUE" /\ ~Incomplete(rreq')) =>
                    rloc'.value = status[rreq'.connection].setpoint]_vars
    /\ [][(rpc = "send" /\ rpc' # "send") =>
            /\ reply' = [status |-> rloc.status, message |-> rloc.message,
                         value |-> rloc.value, to |-> rreq]
            /\ UNCHANGED <<storeV, q, dev, act>>]_vars

C28_CheckValueAnswered ==
    /\ reply.to = Request("CHECK_VALUE", 1, 0, "absent")
    /\ reply.status = "SUCCESS"
    /\ reply.value = 1000000
    /\ status[1].setpoint = 1000000
    /\ status[2].setpoint = 0

(***************************************************************************)
(* SpecServe: SpecWait with the command server's thread scheduled fairly   *)
(* from the receipt of a request to its reply                              *)
(***************************************************************************)
RepAnswers == RepPvStatus \/ RepPvGlobals \/ WaitSteps \/ RepSend

SpecServe == InitLock /\ [][NextWait]_vars /\ WF_vars(RepAnswers)

\* the server is between the receipt of a request and its reply
Handling ==
    rpc \in {"pv_status", "pv_globals", "wait_head", "wait_read",
             "wait_sleep", "send"}

\* C29: the server holds a request exactly while it handles one; it
\* receives only when it holds none; a request leaves the server only with
\* one reply, addressed to it, sent in that step, after which the server is
\* back at its loop; every request received is eventually answered, a
\* rejected text and a timed-out lock-wait included; and the server's loop
\* does not end while nobody has asked it to stop.
C29_OneReplyPerRequest ==
    /\ [](/\ (rreq # NoMsg) <=> Handling
          /\ rpc = "exited" => RepStopped)
    /\ [][Receives => (rreq = NoMsg /\ rreq' \in Requests /\ Handling')]_vars
    /\ [][(rreq # NoMsg /\ rreq' # rreq) =>
            /\ rpc = "send" /\ rpc' = "loop"
            /\ rreq' = NoMsg
            /\ reply'.to = rreq
            /\ reply'.status \in {"SUCCESS", "ERROR"}]_vars
    /\ [][reply' # reply =>
            \/ reply' = NoReply
            \/ (rpc = "send" /\ reply'.to = rreq)]_vars
    /\ (rreq # NoMsg) ~> (rreq = NoMsg)

C29_BackAtLoopAfterTimeout ==
    /\ reply.message = "Timeout waiting for lock"
    /\ reply.status = "ERROR"
    /\ reply.to.action = "PROGRAM_VALUE"
    /\ rpc = "loop"
    /\ rreq = NoMsg
    /\ ~RepStopped


(***************************************************************************)
(* SpecFrame: the worker, the command server and the publisher together;   *)
(* one client that programs channel 1 and says hello                       *)
(***************************************************************************)
FrameRequests ==
    {Request("HELLO", 0, 0, "absent"),
     Request("PROGRAM_VALUE", 1, 1000000, "absent")}

NextFrame ==
    \/ Startup
    \/ RepLoop \/ RepPollTimeout \/ RepSend
    \/ \E m \in FrameRequests : RepRecv(m)
    \/ RepPvStatus \/ RepPvGlobals
    \/ WaitSteps
    \/ PubSteps
    \/ TickFast \/ TickSlow
    \/ \E c \in Ctx : Dispatch(c)
    \/ \E c \in Ctx : WorkerPolls(c)
    \/ \E c \in Ctx : SetpointSteps(c)

SpecFrame == InitLock /\ [][NextFrame]_vars

\* self.request_setpoint_write.emit(p, target) of the request just taken
SetpointIntent ==
    Event("setpoint", rreq'.connection, rreq'.value, FALSE, FALSE)

\* C30: no slot is ever posted to or run on the command server's thread;
\* every change of the store or of the instrument is a step of a handler on
\* the worker's thread, during which the server and the publisher stand
\* still; a step of the server (the lock-wait included) or of the publisher
\* leaves the store, the instrument, the worker's fields and the running
\* handlers unchanged and changes the queues at most by appending the
\* setpoint event of a PROGRAM_VALUE request to the worker's queue; and
\* after the emit the server's next step is enabled whether or not the
\* write has been executed.
C30_OnlyWorkerMutates ==
    /\ [](act["rep"] = Idle /\ q["rep"] = <<>>)
    /\ [][(storeV' # storeV \/ dev' # dev) =>
            /\ act["worker"].h # "idle"
            /\ act'["worker"] # act["worker"]
            /\ repV' = repV /\ pub' = pub]_vars
    /\ [][(RepSteps \/ PubSteps) =>
            /\ UNCHANGED <<storeV, dev, wkrV, act>>
            /\ \/ q' = q
               \/ /\ Receives /\ rreq'.action = "PROGRAM_VALUE"
                  /\ q' = [q EXCEPT !["worker"] = Append(@, SetpointIntent)]]_vars
    /\ [](rpc = "pv_status" => ENABLED RepPvStatus)

\* the server has answered a PROGRAM_VALUE request while the setpoint event
\* it emitted for it is still waiting in the worker's queue, and a publisher
\* pass is under way
C30_RepliedBeforeWriteExecuted ==
    /\ reply.status = "SUCCESS"
    /\ reply.to.action = "PROGRAM_VALUE"
    /\ \E i \in 1..Len(q["worker"]) :
          q["worker"][i] = Event("setpoint", reply.to.connection,
                                 reply.to.value, FALSE, FALSE)
    /\ pub.pc # "idle"

(***************************************************************************)
(* SpecFail: setpoint and autocal requests of the operator and both polls  *)
(* against an instrument without light whose calls may raise               *)
(***************************************************************************)
FailSteps(c) == WriteRaise(c) \/ ReadbackRaise(c)

InitFail ==
    /\ InitProgram
    /\ dev = [DevBase EXCEPT !.flaky = TRUE, !.lit = [p \in PORTS |-> FALSE]]

NextFail ==
    \/ Startup
    \/ GuiSetpoint \/ GuiAutocal
    \/ TickFast \/ TickSlow
    \/ \E c \in Ctx : Dispatch(c)
    \/ \E c \in Ctx : PollSteps(c)
    \/ \E c \in Ctx : SetpointSteps(c)
    \/ \E c \in Ctx : AutocalWrite(c) \/ AutocalReadback(c)
    \/ \E c \in Ctx : FailSteps(c)

SpecFail == InitFail /\ [][NextFail]_vars

\* log lines of the except branches (and of Qt for a slot that raises)
FailureLogs ==
    {"poll_fast error", "poll_slow globals error", "poll_slow status error",
     "unhandled exception in slot", "readback failed"}

\* the worker is again at the device call it was at before the step
SameCall ==
    /\ act'["worker"].h = act["worker"].h
    /\ act'["worker"].pc = act["worker"].pc
    /\ act'["worker"].port = act["worker"].port

\* C31: a step in which a device call fails leaves the store and the
\* instrument unchanged, emits no status or globals update signal and does
\* not leave the worker at the same call; a failure in a fast tick or in a
\* write handler (write or readback) ends the handler, so the stored value
\* can only be refreshed by a later tick or command, and a failure in a
\* slow tick moves on to the next read of that tick.
C31_NoAutomaticRetry ==
    /\ [][lastLog' \in FailureLogs =>
            /\ ~SameCall
            /\ UNCHANGED <<storeV, dev, q>>
            /\ emitted' = ""]_vars
    /\ [][lastLog' \in {"poll_fast error", "unhandled exception in slot",
                        "readback failed"} => Free("worker")']_vars
    /\ [][lastLog' \in {"poll_slow globals error", "poll_slow status error"}
            => \/ Free("worker")'
               \/ /\ At("worker", "slow", "status")'
                  /\ act'["worker"].port =
                        IF act["worker"].pc = "globals" THEN 1
                        ELSE act["worker"].port + 1]_vars

\* the readback of an autocal write has just failed: the instrument has
\* taken the written mode, the store still holds the earlier one, no update
\* signal was emitted and the handler has ended
C31_ReadbackFailedStoreStale ==
    /\ lastLog = "readback failed"
    /\ emitted = ""
    /\ Free("worker")
    /\ dev.autocal = 1
    /\ ~globals.autocal

(***************************************************************************)
(* Properties of the slow tick                                             *)
(***************************************************************************)
\* the store's globals and every channel's status entry hold what the
\* instrument holds
GlobalsAsDevice ==
    /\ globals.temperature = dev.temperature
    /\ globals.pressure = dev.pressure
    /\ globals.autocal = (dev.autocal = 1)
    /\ globals.deviation_mode = (dev.deviation_mode = 1)
    /\ globals.wlm_active
StatusAsDevice(p) ==
    /\ status[p].use = (dev.use[p] # 0)
    /\ status[p].show = (dev.show[p] # 0)
    /\ status[p].setpoint = dev.sp[p]
    /\ status[p].bound_min = dev.bmin[p]
    /\ status[p].bound_max = dev.bmax[p]
    /\ status[p].lock_enabled = dev.assign[p]

\* C32: with the instrument present and no failing call, the globals read
\* of a slow tick leaves the store's globals equal to the instrument's
\* values with wlm_active true; while the tick reads the status of channel
\* k the globals and channels 1..k-1 already hold the instrument's values;
\* and when the tick ends the globals and every channel's status entry
\* (use, show, setpoint, bounds, and lock_enabled from the channel
\* assignment) equal the instrument's values, whatever a lock command had
\* stored before.
C32_SlowTickMirrorsDevice ==
    /\ [](At("worker", "slow", "status") =>
            /\ GlobalsAsDevice
            /\ \A p \in 1..(act["worker"].port - 1) : StatusAsDevice(p))
    /\ [][(At("worker", "slow", "status") /\ Free("worker")') =>
            (GlobalsAsDevice /\ \A p \in PORTS : StatusAsDevice(p))']_vars

\* a slow tick is about to read the status of a channel that a lock
\* command has stored as armed while the instrument has it unassigned
C32_LockCommandAboutToBeOverridden ==
    /\ At("worker", "slow", "status")
    /\ LET p == act["worker"].port
       IN /\ status[p].lock_enabled /\ w_lock[p]
          /\ ~dev.assign[p]

(***************************************************************************)
(* Properties of a failing tick                                            *)
(***************************************************************************)
\* the packet stored for channel p was built by an iteration of _poll_fast
MergedByFast(p) ==
    /\ meas[p].exp = ExpReading /\ meas[p].amp = AmpReading
    /\ meas[p].freq_raw \in Readings(p)

\* C33: an iteration of the fast loop on channel k changes no other
\* channel's measurements, and when it completes it has merged channel k;
\* while the loop is at channel k the channels 1..k-1 have been merged; an
\* iteration in which a device call raises changes nothing in the store
\* (channel k included, though its last-good value may have advanced to a
\* genuine reading), logs the error, ends the tick with the busy flag
\* cleared; and the flag is never set when no tick is running, so the next
\* tick is not skipped.
C33_FastTickFailureIsPartial ==
    /\ [](/\ At("worker", "fast", "port") =>
                \A p \in 1..(act["worker"].port - 1) : MergedByFast(p)
          /\ Free("worker") => ~busy_fast)
    /\ [][At("worker", "fast", "port") =>
            \E k \in PORTS :
            /\ k = act["worker"].port
            /\ \A p \in PORTS \ {k} : meas'[p] = meas[p]
            /\ UNCHANGED <<status, globals>>
            /\ IF lastLog' = "poll_fast error"
               THEN /\ meas'[k] = meas[k]
                    /\ Free("worker")' /\ ~busy_fast'
                    /\ \A p \in PORTS \ {k} : last_good'[p] = last_good[p]
                    /\ last_good'[k] \in {last_good[k]} \cup GenuineReadings
               ELSE act' # act => MergedByFast(k)']_vars
    /\ [][lastLog' = "poll_fast error" => At("worker", "fast", "port")]_vars

\* a tick has failed at channel 2: channel 1 was merged in it, channel 2
\* still holds its defaults, the busy flag is clear
C33_FailedAtSecondChannel ==
    /\ lastLog = "poll_fast error"
    /\ MergedByFast(1)
    /\ meas[2] = MeasDefault
    /\ ~busy_fast /\ Free("worker")

\* C34: with the instrument present, a slow tick reads the status of the
\* channels one after the other up to the last, whether or not a read
\* fails; a status read that fails on channel k leaves the whole store, and
\* so channel k's status entry, unchanged; one that succeeds merges the
\* instrument's values into channel k's entry and changes no other
\* channel's; a failure among the four globals reads leaves the store, and
\* so temperature, pressure, autocal and deviation_mode, unchanged, a
\* success merges all four; and in both cases the tick goes on to the
\* status of channel 1.
C34_SlowTickFailureIsolation ==
    /\ [][At("worker", "slow", "status") =>
            \E k \in PORTS :
            /\ k = act["worker"].port
            /\ IF k < NumPorts
               THEN At("worker", "slow", "status")'
                    /\ act'["worker"].port = k + 1
               ELSE Free("worker")'
            /\ UNCHANGED <<meas, globals>>
            /\ \A p \in PORTS \ {k} : status'[p] = status[p]
            /\ IF lastLog' = "poll_slow status error"
               THEN status'[k] = status[k]
               ELSE StatusAsDevice(k)']_vars
    /\ [][At("worker", "slow", "globals") =>
            /\ At("worker", "slow", "status")' /\ act'["worker"].port = 1
            /\ UNCHANGED <<meas, status>>
            /\ IF lastLog' = "poll_slow globals error"
               THEN globals' = globals
               ELSE GlobalsAsDevice']_vars
    /\ [][lastLog' = "poll_slow status error" =>
            At("worker", "slow", "status")]_vars
    /\ [][lastLog' = "poll_slow globals error" =>
            At("worker", "slow", "globals")]_vars

\* a slow tick has ended in which the globals reads and the status read of
\* channel 1 failed and the status of channel 2 was merged
C34_OtherChannelStillMerged ==
    /\ Free("worker")
    /\ globals.temperature = GlobalsDefault.temperature
    /\ globals.temperature # dev.temperature
    /\ status[1] = StatusDefault
    /\ StatusAsDevice(2)

(***************************************************************************)
(* Frame of the write handlers                                             *)
(***************************************************************************)
\* the store changes at most in the fields F of channel k's status entry,
\* of channel k's measurements, or of the globals
OnlyStatus(k, F) ==
    /\ UNCHANGED <<meas, globals>>
    /\ \A p \in PORTS, f \in DOMAIN StatusDefault :
          (p # k \/ f \notin F) => status'[p][f] = status[p][f]
OnlyMeas(k, F) ==
    /\ UNCHANGED <<status, globals>>
    /\ \A p \in PORTS, f \in DOMAIN MeasDefault :
          (p # k \/ f \notin F) => meas'[p][f] = meas[p][f]
OnlyGlobals(F) ==
    /\ UNCHANGED <<meas, status>>
    /\ \A f \in DOMAIN GlobalsDefault :
          f \notin F => globals'[f] = globals[f]

\* C35: every step of a write handler of the worker leaves the store as it
\* is except for the handler's own fields: status.setpoint of its channel
\* for a setpoint write, measurement.volt of its channel for a voltage
\* write, status.use and status.show of its channel for a switcher write,
\* status.lock_enabled of its channel for a lock write, globals.autocal for
\* an autocal write and globals.deviation_mode for a deviation-mode write.
C35_WriteHandlersFrame ==
    [][\A k \in PORTS \cup {0} : act["worker"].port = k =>
          /\ act["worker"].h = "setpoint" => OnlyStatus(k, {"setpoint"})
          /\ act["worker"].h = "voltage" => OnlyMeas(k, {"volt"})
          /\ act["worker"].h = "switcher" => OnlyStatus(k, {"use", "show"})
          /\ act["worker"].h = "lock" => OnlyStatus(k, {"lock_enabled"})
          /\ act["worker"].h = "autocal" => OnlyGlobals({"autocal"})
          /\ act["worker"].h = "deviation" =>
                OnlyGlobals({"deviation_mode"})]_vars

\* a voltage write has just merged its readback into a channel whose
\* frequency fields a fast tick had filled
C35_VoltageMergedBesideFrequency ==
    /\ lastLog = "Voltage write"
    /\ \E p \in PORTS : /\ meas[p].volt = 7
                         /\ meas[p].freq_raw = ErrNoSignal
                         /\ meas[p].exp = ExpReading

(***************************************************************************)
(* Invariants of the stored measurements                                   *)
(***************************************************************************)
\* the frequency fields of m are the four outputs of one normalizer call
FromOneCall(m) ==
    \E last \in {None} \cup GenuineReadings,
       f_raw \in LitReadings \cup DarkReadings :
        LET n == NormalizeFrequency(last, f_raw)
        IN /\ m.freq_raw = n.raw /\ m.freq_display = n.disp
           /\ m.freq_plot = n.plot /\ m.valid = n.valid

StillDefault(m) ==
    /\ m.freq_raw = MeasDefault.freq_raw
    /\ m.freq_display = MeasDefault.freq_display
    /\ m.freq_plot = MeasDefault.freq_plot
    /\ m.valid = MeasDefault.valid

\* C36: in every state of the store and for every channel, valid implies a
\* non-null freq_display, freq_plot is null or equal to freq_display, and
\* freq_raw, freq_display, freq_plot and valid are together the outputs of
\* one normalizer call or are all still the defaults.
C36_MeasurementConsistency ==
    \A p \in PORTS :
        /\ meas[p].valid => meas[p].freq_display # None
        /\ meas[p].freq_plot \in {None, meas[p].freq_display}
        /\ StillDefault(meas[p]) \/ FromOneCall(meas[p])

\* channel 1 holds a hard failure shown with the last good value (display
\* set, plot null, not valid) after a voltage write, channel 2 a reading
\* without history
C36_HardFailureKeepsDisplay ==
    /\ ~meas[1].valid
    /\ meas[1].freq_display \in GenuineReadings
    /\ meas[1].freq_plot = None
    /\ meas[1].freq_raw = ErrNoSignal
    /\ meas[1].volt = 7
    /\ ~StillDefault(meas[2])

(***************************************************************************)
(* SpecPresence: SpecFail with the wlmServer application closed and        *)
(* started by the operator                                                 *)
(***************************************************************************)
NextPresence == NextFail \/ ServerToggle

SpecPresence == InitFail /\ [][NextPresence]_vars

\* C37: whenever no handler is running on the worker, the store's
\* globals.wlm_active equals the worker's _wlm_active; both are true in the
\* initial state.
C37_PresenceFlagAgreement ==
    Free("worker") => (globals.wlm_active = w_active)

\* the flags agree on false between handlers, after a setpoint write that
\* was executed during the outage, the server being back but not yet seen
C37_AgreeOnAbsentAfterWrite ==
    /\ Free("worker")
    /\ ~globals.wlm_active /\ ~w_active
    /\ dev.active
    /\ lastLog = "Setpoint write"

(***************************************************************************)
(* The last-good value                                                     *)
(***************************************************************************)
\* C38: every channel's last-good value is null at the start and never
\* holds the no-new-sample code or a hard-failure code; it changes only in
\* an iteration of the fast loop on that same channel, and then to the
\* genuine reading which that iteration stores as the channel's freq_raw;
\* so no other channel's reading, sentinel, slow tick or write handler
\* changes it and it never returns to null.
C38_LastGoodValue ==
    /\ \A p \in PORTS : last_good[p] = None
    /\ [](\A p \in PORTS :
            last_good[p] \notin {InfNothingChanged} \cup HARD_INVALID)
    /\ [][\A p \in PORTS : last_good'[p] # last_good[p] =>
            /\ At("worker", "fast", "port") /\ act["worker"].port = p
            /\ last_good'[p] \in GenuineReadings
            /\ meas'[p].freq_raw = last_good'[p]
            /\ meas'[p].valid]_vars

\* channel 1 keeps its last-good value while its stored reading is a
\* hard-failure code, channel 2 has never had a genuine reading, and a
\* slow tick and a setpoint write have run
C38_KeptThroughSentinelSlowTickAndWrite ==
    /\ last_good[1] \in GenuineReadings
    /\ meas[1].freq_raw = ErrNoSignal
    /\ last_good[2] = None
    /\ meas[2].freq_raw = ErrNoSignal
    /\ StatusAsDevice(2)
    /\ lastLog = "Setpoint write"

(***************************************************************************)
(* SpecCheck: a client that programs and checks the setpoint of channel 1  *)
(* without lock-wait, on an instrument that holds another setpoint and     *)
(* whose calls may raise                                                   *)
(***************************************************************************)
PreviousSetpoint == 1000004

CheckRequests ==
    {Request("CHECK_VALUE", 1, 0, "absent")}
    \cup {Request("PROGRAM_VALUE", 1, v, "false") : v \in Targets}

InitCheck ==
    /\ InitProgram
    /\ dev = [DevBase EXCEPT !.flaky = TRUE,
                             !.sp = [p \in PORTS |-> PreviousSetpoint]]

NextCheck ==
    \/ Startup
    \/ RepLoop \/ RepPollTimeout \/ RepSend
    \/ \E m \in CheckRequests : RepRecv(m)
    \/ RepPvStatus \/ RepPvGlobals
    \/ TickSlow
    \/ \E c \in Ctx : Dispatch(c)
    \/ \E c \in Ctx : SlowIsActive(c) \/ SlowGlobals(c) \/ SlowStatus(c)
    \/ \E c \in Ctx : SlowGlobalsRaise(c) \/ SlowStatusRaise(c)
    \/ \E c \in Ctx : SetpointSteps(c)
    \/ \E c \in Ctx : FailSteps(c)

SpecCheck == InitCheck /\ [][NextCheck]_vars

\* C39: the stored setpoint of a channel is the default until the worker
\* merges one, and changes only in a status read of a slow tick or in the
\* readback of a setpoint write on that channel, to the value the
\* instrument holds then; a rejected write, a write or readback that
\* fails, and every step of the command server leave it unchanged; the
\* server answers CHECK_VALUE with the stored setpoint of the moment it
\* handles the request, and sends that value.
C39_CheckValueIsReadback ==
    /\ \A p \in PORTS : status[p].setpoint = StatusDefault.setpoint
    /\ [][\A p \in PORTS : status'[p].setpoint # status[p].setpoint =>
            /\ \/ At("worker", "slow", "status")
               \/ At("worker", "setpoint", "get_pid_course_num")
            /\ act["worker"].port = p
            /\ status'[p].setpoint = dev.sp[p]
            /\ repV' = repV]_vars
    /\ [][lastLog' \in {"Setpoint write REJECTED", "readback failed",
                        "unhandled exception in slot"} =>
            UNCHANGED status]_vars
    /\ [][(Receives /\ rreq'.action = "CHECK_VALUE") =>
            /\ rloc'.status = "SUCCESS"
            /\ rloc'.value = status[rreq'.connection].setpoint]_vars
    /\ [][(reply' # reply /\ reply'.to.action = "CHECK_VALUE") =>
            /\ reply'.status = rloc.status
            /\ reply'.value = rloc.value]_vars
    /\ [](rreq.action = "CHECK_VALUE" =>
            /\ rpc = "send"
            /\ rloc.value \in {StatusDefault.setpoint, PreviousSetpoint}
                                \cup Targets)

\* CHECK_VALUE has been answered with the previous setpoint while the
\* write of an accepted PROGRAM_VALUE target is still queued at the worker
C39_PreviousSetpointAfterProgram ==
    /\ reply.to.action = "CHECK_VALUE"
    /\ reply.status = "SUCCESS"
    /\ reply.value = PreviousSetpoint
    /\ q["worker"] = <<Event("setpoint", 1, 1000000, FALSE, FALSE)>>

(***************************************************************************)
(* SpecStop: closeEvent while the worker polls, the publisher publishes    *)
(* and the command server serves a client that programs channel 1 and      *)
(* waits for the lock                                                      *)
(***************************************************************************)
StopRequests == {Request("PROGRAM_VALUE", 1, 1000000, "absent")}

NextStop ==
    \/ Startup
    \/ Shutdown
    \/ RepLoop \/ RepPollTimeout \/ RepSend
    \/ \E m \in StopRequests : RepRecv(m)
    \/ RepPvStatus \/ RepPvGlobals
    \/ WaitHead \/ WaitRead \/ WaitSleep
    \/ PubSteps \/ PubExit
    \/ TickFast \/ TickSlow \/ TickLate
    \/ \E c \in Ctx : Dispatch(c)
    \/ \E c \in Ctx : FastPort(c)
    \/ \E c \in Ctx : SlowIsActive(c) \/ SlowGlobals(c) \/ SlowStatus(c)
    \/ \E c \in Ctx : SetpointWrite(c) \/ SetpointReadback(c)

\* the steps of the command server's thread and of the publisher's thread
RepThread ==
    \/ RepLoop \/ RepPollTimeout \/ RepSend
    \/ \E m \in StopRequests : RepRecv(m)
    \/ RepPvStatus \/ RepPvGlobals
    \/ WaitHead \/ WaitRead \/ WaitSleep
PubThread == PubSteps \/ PubExit

\* neither thread is starved; the main thread goes through closeEvent
SpecStop ==
    /\ InitWrite /\ [][NextStop]_vars
    /\ WF_vars(RepThread) /\ WF_vars(PubThread)

\* steps the command server has left at most before run() ends once stop()
\* has been called, by its position
RepRank ==
    CASE rpc = "exited" -> 0
      [] rpc = "loop" -> 1
      [] rpc = "send" -> 2
      [] rpc = "wait_head" -> 3
      [] rpc = "wait_sleep" -> 4
      [] rpc = "wait_read" -> 5
      [] rpc = "pv_globals" -> 6
      [] rpc = "pv_status" -> 7
      [] rpc = "polling" -> 8
      [] OTHER -> 9

\* the same for the publisher: the rest of the pass, then the loop test
PubRank ==
    CASE pub.pc = "exited" -> 0
      [] pub.pc = "idle" -> 1
      [] pub.pc = "port" -> 2 + NumPorts - pub.port
      [] pub.pc = "copy" -> 2 + NumPorts
      [] OTHER -> 3 + NumPorts

\* C40: once the worker's stop() has run, the worker is not running, its
\* timers are stopped, and no later step (a late fast or slow tick
\* included) changes the store, the instrument or the worker's fields or
\* starts a handler; once stop() has been called on the command server
\* every step of the server brings it nearer to the end of run(), from the
\* receive poll and from every position of the lock-wait, and a wait that
\* is at its loop test answers ERROR, a wait answering SUCCESS only from a
\* read that completes the lock; once stop() has been called on the
\* publisher every step of it brings it nearer to the end of run(); and
\* both run loops do end.
C40_Shutdown ==
    /\ [](wthread = "finished" =>
            ~w_running /\ ~timers /\ Free("worker"))
    /\ [][wthread = "finished" =>
            UNCHANGED <<storeV, dev, wkrV, act>>]_vars
    /\ [][(RepStopped /\ rpc' # rpc) => RepRank' < RepRank]_vars
    /\ [][(RepStopped /\ InWait /\ rpc' = "send") =>
            \/ rloc'.status = "ERROR"
            \/ rpc = "wait_read" /\ LockAchieved(rloc'.consecutive)]_vars
    /\ [][(PubStopped /\ pub'.pc # pub.pc) => PubRank' < PubRank]_vars
    /\ [][(PubStopped /\ pub' # pub) => PubRank' < PubRank]_vars
    /\ PubStopped ~> (rpc = "exited" /\ pub.pc = "exited")

\* the server, stopped inside a lock-wait, has left the wait before the
\* timeout with the error response, which it is about to send; the
\* publisher's run() has ended after a pass; the worker has stopped
C40_StoppedInsideLockWait ==
    /\ rpc = "send" /\ RepStopped
    /\ rloc.status = "ERROR"
    /\ rloc.message = "Timeout waiting for lock"
    /\ rloc.elapsed < LockTimeoutTicks
    /\ pub.pc = "exited" /\ pub.out # <<>>
    /\ wthread = "finished" /\ ~w_running

=========================================================================
